---- MODULE Spec2Model ----
(***************************************************************************)
(* A model of the interview-prep backend services:                         *)
(*   - WebScraper            (backend/app/services/scraper.py)             *)
(*   - SchedulerService      (backend/app/services/scheduler.py)           *)
(*   - NotificationService   (backend/app/services/notification.py)        *)
(* Each subsystem has its own specification (SpecScrape, SpecExtract,      *)
(* SpecParse, SpecPeers, SpecGen, SpecQuiz, SpecNotify, SpecLoop,          *)
(* SpecRestart, SpecPair, SpecSetup, SpecBatch); the variables of the      *)
(* other subsystems stay at                                                *)
(* their initial values.                                                   *)
(***************************************************************************)
EXTENDS Integers, Sequences, FiniteSets, Bags, TLC

VARIABLES
    \* ---- WebScraper ----
    max_concurrent_requests, \* settings.MAX_CONCURRENT_REQUESTS, read in __aenter__
    session,                 \* self.session: "None" | "open" | "closed"
    scrape_pc,               \* scrape_all_sources: "idle" | "gather" | "done"
    topic,                   \* argument of the running call
    company,                 \* argument of the running call
    task,                    \* the adapter coroutines handed to asyncio.gather
    done_order,              \* adapters in the order their coroutines completed
    ret,                     \* how scrape_all_sources ended
    extract,                 \* a call of _extract_questions_from_text
    parse,                   \* a run of the container loop of a structured adapter
    peer,                    \* a second WebScraper of the same process
    \* ---- clock and persistent tables ----
    now,                     \* the wall clock, in days
    users,                   \* table users: id -> row
    user_topics,             \* table user_topics: user id -> rows
    quiz_schedules,          \* table daily_quiz_schedules: the committed rows (a bag)
    \* ---- SchedulerService ----
    gen,                     \* the running _create_daily_quiz_schedules call
    gen_runs,                \* how its last two completed calls ended
    cu,                      \* the running create_user_quiz_schedule call
    \* ---- NotificationService ----
    schedules,               \* table notification_schedules: id -> row
    firebase_app,            \* self.firebase_app: "app" | "None"
    proc,                    \* the running process_pending_notifications call
    \* ---- SchedulerService: the two background loops ----
    is_running,              \* self.is_running
    last_start,              \* how the last call of start() went
    jobs                     \* task id -> the task start() created for it

scrapeVars == <<max_concurrent_requests, session, scrape_pc, topic, company,
                task, done_order, ret, extract, parse, peer>>

dbVars == <<now, users, user_topics, quiz_schedules>>
quizVars == <<gen, gen_runs, cu>>

notifyVars == <<schedules, firebase_app, proc>>

loopVars == <<is_running, last_start, jobs>>

vars == <<scrapeVars, dbVars, quizVars, notifyVars, loopVars>>

(***************************************************************************)
(* Bounds and input sets                                                   *)
(***************************************************************************)
\* largest configured MAX_CONCURRENT_REQUESTS explored (1..MaxConfigured)
MaxConfigured == 3

None == "None"

(***************************************************************************)
(* WebScraper._extract_questions_from_text                                 *)
(***************************************************************************)
\* A text is a sequence of characters (strings of length one).

\* number of phrases a text is made of (0..MaxPhrases)
MaxPhrases == 3

\* 'Q1: what is rpc? '
PhraseQ ==
    <<"Q", "1", ":", " ", "w", "h", "a", "t", " ", "i", "s", " ", "r", "p",
      "c", "?", " ">>
\* 'Question 2. why use locks? '
PhraseQuestion ==
    <<"Q", "u", "e", "s", "t", "i", "o", "n", " ", "2", ".", " ", "w", "h",
      "y", " ", "u", "s", "e", " ", "l", "o", "c", "k", "s", "?", " ">>
\* 'They asked: what is rpc? '
PhraseTheyAsked ==
    <<"T", "h", "e", "y", " ", "a", "s", "k", "e", "d", ":", " ", "w", "h",
      "a", "t", " ", "i", "s", " ", "r", "p", "c", "?", " ">>
\* 'The interviewer asked how does dns work? '
PhraseInterviewer ==
    <<"T", "h", "e", " ", "i", "n", "t", "e", "r", "v", "i", "e", "w", "e",
      "r", " ", "a", "s", "k", "e", "d", " ", "h", "o", "w", " ", "d", "o",
      "e", "s", " ", "d", "n", "s", " ", "w", "o", "r", "k", "?", " ">>
\* "'what is rpc?' "
PhraseQuoted ==
    <<"'", "w", "h", "a", "t", " ", "i", "s", " ", "r", "p", "c", "?", "'",
      " ">>
\* 'Q: why? '
PhraseShort ==
    <<"Q", ":", " ", "w", "h", "y", "?", " ">>
\* '\n'
PhraseNewline ==
    <<"\n">>
\* 'Question 3: how does dns work? '
PhraseQuestionDns ==
    <<"Q", "u", "e", "s", "t", "i", "o", "n", " ", "3", ":", " ", "h", "o",
      "w", " ", "d", "o", "e", "s", " ", "d", "n", "s", " ", "w", "o", "r",
      "k", "?", " ">>
\* 'question what is rpc? '
PhraseLowerCase ==
    <<"q", "u", "e", "s", "t", "i", "o", "n", " ", "w", "h", "a", "t", " ",
      "i", "s", " ", "r", "p", "c", "?", " ">>
\* "'  is tcp reliable?'"
PhraseQuotedSpaces ==
    <<"'", " ", " ", "i", "s", " ", "t", "c", "p", " ", "r", "e", "l", "i",
      "a", "b", "l", "e", "?", "'">>
\* 'Q2 explain '
PhraseOpen ==
    <<"Q", "2", " ", "e", "x", "p", "l", "a", "i", "n", " ">>

Phrases ==
    {PhraseQ,
     PhraseQuestion,
     PhraseTheyAsked,
     PhraseInterviewer,
     PhraseQuoted,
     PhraseShort,
     PhraseNewline,
     PhraseQuestionDns,
     PhraseLowerCase,
     PhraseQuotedSpaces,
     PhraseOpen}

RECURSIVE TextsOf(_)
TextsOf(n) ==
    IF n = 0 THEN {<<>>}
    ELSE LET shorter == TextsOf(n - 1)
         IN shorter \cup {t \o ph : t \in shorter, ph \in Phrases}
Texts == TextsOf(MaxPhrases)

\* re.IGNORECASE, for the upper-case letters the texts contain.
Fold(c) == CASE c = "Q" -> "q" [] c = "T" -> "t" [] OTHER -> c

\* Character classes: \d, \s, [:\.], ["\'].  '.' matches all but "\n".
Digits == {"0", "1", "2", "3", "4", "5", "6", "7", "8", "9"}
Whitespace == {" ", "\n", "\t"}
ColonDot == {":", "."}
Quotes == {"\"", "'"}

\* Elements of the part of a pattern before its group: a literal word, a
\* greedy X*, a greedy X?, one character of a class.
Lit(w) == [kind |-> "lit", word |-> w, class |-> {}]
Star(C) == [kind |-> "star", word |-> <<>>, class |-> C]
Opt(C) == [kind |-> "opt", word |-> <<>>, class |-> C]
One(C) == [kind |-> "one", word |-> <<>>, class |-> C]

WordQ ==
    <<"q">>
WordQuestion ==
    <<"q", "u", "e", "s", "t", "i", "o", "n">>
WordTheyAsked ==
    <<"t", "h", "e", "y", " ", "a", "s", "k", "e", "d">>
WordInterviewerAsked ==
    <<"t", "h", "e", " ", "i", "n", "t", "e", "r", "v", "i", "e", "w", "e",
      "r", " ", "a", "s", "k", "e", "d">>

\* The five patterns: the elements before the group (.+?\?) and the class of
\* the character after the group ({} when the group ends the pattern).
\* r'Q\d*[:\.]?\s*(.+?\?)'
PatternQ ==
    [prefix |-> <<Lit(WordQ), Star(Digits), Opt(ColonDot), Star(Whitespace)>>,
     closing |-> {}]
\* r'Question\s*\d*[:\.]?\s*(.+?\?)'
PatternQuestion ==
    [prefix |-> <<Lit(WordQuestion), Star(Whitespace), Star(Digits),
                  Opt(ColonDot), Star(Whitespace)>>,
     closing |-> {}]
\* r'They asked[:\s]*(.+?\?)'
PatternTheyAsked ==
    [prefix |-> <<Lit(WordTheyAsked), Star({":"} \cup Whitespace)>>,
     closing |-> {}]
\* r'The interviewer asked[:\s]*(.+?\?)'
PatternInterviewerAsked ==
    [prefix |-> <<Lit(WordInterviewerAsked), Star({":"} \cup Whitespace)>>,
     closing |-> {}]
\* r'["\'](.+?\?)["\']'
PatternQuoted ==
    [prefix |-> <<One(Quotes)>>, closing |-> Quotes]

question_patterns_reversed ==
    <<PatternQuoted, PatternInterviewerAsked, PatternTheyAsked,
      PatternQuestion, PatternQ>>
question_patterns ==
    <<PatternQ, PatternQuestion, PatternTheyAsked,
      PatternInterviewerAsked, PatternQuoted>>

Min(S) == CHOOSE x \in S : \A y \in S : x <= y
Max(S) == CHOOSE x \in S : \A y \in S : y <= x

\* Number of characters of class C in a row from position p.
RECURSIVE RunLength(_, _, _)
RunLength(t, C, p) ==
    IF p <= Len(t) /\ t[p] \in C THEN 1 + RunLength(t, C, p + 1) ELSE 0

\* The positions after element e matched at p, in the order the regex
\* engine tries them (greedy: the longest first).
Step(t, e, p) ==
    CASE e.kind = "lit" ->
           IF /\ p + Len(e.word) - 1 <= Len(t)
              /\ \A i \in 1..Len(e.word) : Fold(t[p + i - 1]) = e.word[i]
           THEN <<p + Len(e.word)>> ELSE <<>>
      [] e.kind = "one" ->
           IF p <= Len(t) /\ t[p] \in e.class THEN <<p + 1>> ELSE <<>>
      [] e.kind = "opt" ->
           IF p <= Len(t) /\ t[p] \in e.class THEN <<p + 1, p>> ELSE <<p>>
      [] e.kind = "star" ->
           LET k == RunLength(t, e.class, p)
           IN [i \in 1..(k + 1) |-> p + k + 1 - i]

RECURSIVE ConcatAll(_)
ConcatAll(seqs) ==
    IF seqs = <<>> THEN <<>> ELSE Head(seqs) \o ConcatAll(Tail(seqs))

\* The positions after the elements k.. matched from p, in the order of
\* backtracking.
RECURSIVE After(_, _, _, _)
After(t, elems, k, p) ==
    IF k > Len(elems) THEN <<p>>
    ELSE LET qs == Step(t, elems[k], p)
         IN ConcatAll([i \in 1..Len(qs) |-> After(t, elems, k + 1, qs[i])])

\* The group (.+?\?) from position gs: one or more characters other than
\* "\n", as few as possible, then "?", then the closing character if the
\* pattern has one.  The position of the "?", 0 when there is no match.
RECURSIVE GroupEndFrom(_, _, _)
GroupEndFrom(t, e, closing) ==
    IF e > Len(t) \/ t[e - 1] = "\n" THEN 0
    ELSE IF /\ t[e] = "?"
            /\ closing # {} => (e + 1 <= Len(t) /\ t[e + 1] \in closing)
         THEN e
         ELSE GroupEndFrom(t, e + 1, closing)
GroupEnd(t, gs, closing) == GroupEndFrom(t, gs + 1, closing)

\* The match of pat that starts at p.
MatchAt(t, pat, p) ==
    LET cand == After(t, pat.prefix, 1, p)
        ok == {i \in 1..Len(cand) : GroupEnd(t, cand[i], pat.closing) # 0}
    IN IF ok = {} THEN [found |-> FALSE, from |-> 0, to |-> 0, next |-> 0]
       ELSE LET gs == cand[Min(ok)]
                e == GroupEnd(t, gs, pat.closing)
            IN [found |-> TRUE, from |-> gs, to |-> e,
                next |-> IF pat.closing = {} THEN e + 1 ELSE e + 2]

\* re.findall(pattern, text, re.IGNORECASE | re.MULTILINE): the groups of the
\* matches, found from left to right without overlap.
\* starts: the positions at which pat has a match; p: where the scan resumes.
RECURSIVE FindAllFrom(_, _, _, _)
FindAllFrom(t, pat, starts, p) ==
    LET later == {q \in starts : q >= p}
    IN IF later = {} THEN <<>>
       ELSE LET m == MatchAt(t, pat, Min(later))
            IN <<SubSeq(t, m.from, m.to)>> \o FindAllFrom(t, pat, starts, m.next)
FindAll(t, pat) ==
    FindAllFrom(t, pat, {q \in 1..Len(t) : MatchAt(t, pat, q).found}, 1)

\* str.strip()
Strip(q) ==
    LET kept == {i \in 1..Len(q) : q[i] \notin Whitespace}
    IN IF kept = {} THEN <<>> ELSE SubSeq(q, Min(kept), Max(kept))

\* `len(question) > 10 and question not in questions`
MinLength == 10
QualifiesAnyLength(question, questions) ==
    \A k \in 1..Len(questions) : questions[k] # question
Qualifies(question, questions) ==
    /\ Len(question) > MinLength
    /\ \A k \in 1..Len(questions) : questions[k] # question

\* questions[:5]
MaxQuestions == 5
Limit(questions) ==
    SubSeq(questions, 1, IF Len(questions) < MaxQuestions THEN Len(questions)
                         ELSE MaxQuestions)

\* `for match in matches`
RECURSIVE ForEachMatch(_, _)
ForEachMatch(matches, questions) ==
    IF matches = <<>> THEN questions
    ELSE LET question == Strip(Head(matches))
         IN ForEachMatch(Tail(matches),
                         IF Qualifies(question, questions)
                         THEN Append(questions, question) ELSE questions)

\* `for pattern in question_patterns`
RECURSIVE ForEachPattern(_, _, _)
ForEachPattern(t, patterns, questions) ==
    IF patterns = <<>> THEN questions
    ELSE ForEachPattern(t, Tail(patterns),
                        ForEachMatch(FindAll(t, Head(patterns)), questions))

extract_questions_from_text(t) ==
    Limit(ForEachPattern(t, question_patterns, <<>>))

\* A call of the extractor.
InitExtract == extract \in {[text |-> t, done |-> FALSE, questions |-> <<>>] : t \in Texts}

ExtractUnused == extract = [text |-> <<>>, done |-> FALSE, questions |-> <<>>]

ExtractQuestionsFromText ==
    /\ ~extract.done
    /\ extract' = [extract EXCEPT !.done = TRUE,
                                  !.questions = extract_questions_from_text(extract.text)]
    /\ UNCHANGED <<max_concurrent_requests, session, scrape_pc, topic, company,
                   task, done_order, ret, parse, peer,
                   dbVars, quizVars, notifyVars, loopVars>>

(***************************************************************************)
(* WebScraper: inputs                                                      *)
(***************************************************************************)
Topics == {"DBMS"}
Companies == {None, "", "Acme"}

\* Adapters in the order scrape_all_sources lists them.
TCYOnline == 1
PrepInsta == 2
IndiaBIX == 3
Reddit == 4
Structured == {TCYOnline, PrepInsta, IndiaBIX}
Adapters == Structured \cup {Reddit}

SourceName(i) ==
    CASE i = TCYOnline -> "TCYOnline"
      [] i = PrepInsta -> "PrepInsta"
      [] i = IndiaBIX  -> "IndiaBIX"
      [] OTHER         -> "Reddit"

Subreddits == <<"cscareerquestions", "interviews", "programming">>

\* What one HTTP exchange produces, as scrape_page and the adapters see it:
\*   "fail"    a timeout, a network error or a non-2xx status;
\*   "garbage" a body on which the adapter's code raises outside its inner
\*             (per-container, JSON-decoding) handler;
\*   "badjson" a body json.loads rejects (Reddit only);
\*   "page"    a body that parses; `body` lists what the parser finds in it.
Resp(kind, body) == [kind |-> kind, body |-> body]
Fail == Resp("fail", <<>>)
\* Texts of question-text elements: 'q1', ' q2\n', ' '.
TextQ1 == <<"q", "1">>
TextQ2 == <<"q", "2">>
TextQ2Padded == <<" ", "q", "2", "\n">>
TextBlank == <<" ">>

\* A question container of a structured page.  element: container.find
\* finds its question-text element; text: the text of that element; raises:
\* the code raises while it handles the container (inside the try block of
\* the loop).
Container(element, text, raises) ==
    [element |-> element, text |-> text, raises |-> raises]
WellFormed(text) == Container(TRUE, text, FALSE)
NoQuestionText == Container(FALSE, <<>>, FALSE)
Malformed == Container(TRUE, TextQ1, TRUE)

\* A structured page: its containers, in page order.
StructuredPages ==
    {<<>>,
     <<WellFormed(TextQ1)>>,
     <<WellFormed(TextQ1), WellFormed(TextQ2Padded)>>}

\* A post of a subreddit search result: the 'data' of a child.
Post(permalink, title, selftext) ==
    [permalink |-> permalink, title |-> title, selftext |-> selftext]
\* f"{title} {selftext}"
Content(post) == post.title \o <<" ">> \o post.selftext
RedditPosts ==
    {Post("/p1", PhraseQuestion \o PhraseQuestionDns,
          PhraseTheyAsked \o PhraseQuotedSpaces)}
\* A subreddit search result: its posts.
RedditPages == {<<>>} \cup {<<post>> : post \in RedditPosts}
\* _extract_questions_from_text(content), for the posts above.
Extracted ==
    [c \in {Content(post) : post \in RedditPosts} |->
        extract_questions_from_text(c)]
Responses(i) ==
    IF i \in Structured
    THEN {Fail, Resp("garbage", <<>>)}
            \cup {Resp("page", b) : b \in StructuredPages}
    ELSE {Fail, Resp("badjson", <<>>), Resp("garbage", <<>>)}
            \cup {Resp("page", b) : b \in RedditPages}

(***************************************************************************)
(* WebScraper: pure parts                                                  *)
(***************************************************************************)
ScrapedQuestion(text, url, name, comp, tpc) ==
    [question_text |-> text, source_url |-> url, source_name |-> name,
     company_name |-> comp, topic |-> tpc]

\* scrape_page's return value for an exchange that ended with `resp`:
\* raise_for_status and every transport error are caught and give None.
scrape_page_result(resp) ==
    IF resp.kind = "fail" THEN Resp("none", <<>>) ELSE resp

\* element.get_text(strip=True), for an element that holds one string.
get_text(text) == Strip(text)

\* `if not question_text: continue`.  container.find returns None or a Tag,
\* and a Tag is truthy whatever it holds.
NotFound(container) == ~container.element

\* `except Exception: ... continue`: the containers the loop goes on with
\* after one that raised.
AfterRecordFaultStops(rest) == <<>>
AfterRecordFault(rest) == rest

\* `for container in question_containers`, for adapter i.
RECURSIVE ForEachContainer(_, _, _, _)
ForEachContainer(i, tpc, containers, questions) ==
    IF containers = <<>> THEN questions
    ELSE LET container == Head(containers)
             rest == Tail(containers)
         IN IF container.raises
            THEN ForEachContainer(i, tpc, AfterRecordFault(rest), questions)
            ELSE IF NotFound(container)
            THEN ForEachContainer(i, tpc, rest, questions)
            ELSE ForEachContainer(i, tpc, rest,
                    Append(questions,
                           ScrapedQuestion(get_text(container.text), SourceName(i),
                                           SourceName(i), None, tpc)))

\* The list a structured-site adapter returns for the html scrape_page gave.
scrape_structured(i, tpc, html) ==
    IF html.kind = "none" THEN <<>>
    ELSE IF html.kind = "garbage" THEN <<>>
    ELSE ForEachContainer(i, tpc, html.body, <<>>)

\* The records scrape_reddit_interviews appends for one decoded post.
RedditPostQuestions(post, comp) ==
    LET extracted_questions == Extracted[Content(post)]
    IN [k \in 1..Len(extracted_questions) |->
          ScrapedQuestion(extracted_questions[k], post.permalink, "Reddit", comp,
                          "Interview Experience")]

RECURSIVE RedditPageQuestions(_, _)
RedditPageQuestions(posts, comp) ==
    IF posts = <<>> THEN <<>>
    ELSE RedditPostQuestions(Head(posts), comp)
            \o RedditPageQuestions(Tail(posts), comp)

\* `if company:` -- None and the empty string are both falsy.
TruthyNotNone(c) == c # None
Truthy(c) == c # None /\ c # ""

\* The coroutines scrape_all_sources hands to gather.
TasksFor(comp) == IF Truthy(comp) THEN Adapters ELSE Structured

InFlight == Cardinality({i \in Adapters : task[i].pc = "fetch"})

\* httpx.Limits(max_connections=...): a request gets a connection only while
\* fewer than max_connections are in use; otherwise it waits in the pool.
PoolHasCapacityDefaultLimits == InFlight < 100
PoolHasCapacity == InFlight < max_concurrent_requests

\* asyncio.gather returns the results in the order of its arguments.
GatherResultsByCompletion ==
    [k \in 1..Len(done_order) |-> task[done_order[k]].result]
GatherResults ==
    LET ids == TasksFor(company)
        n == Cardinality(ids)
    IN [k \in 1..n |-> task[k].result]

\* The loop over results: lists are appended, exceptions are logged.
RECURSIVE ExtendAllDedup(_, _)
ExtendAllDedup(results, acc) ==
    IF results = <<>> THEN acc
    ELSE LET r == Head(results)
             fresh == SelectSeq(r.value,
                        LAMBDA q : \A k \in 1..Len(acc) :
                                      acc[k].question_text # q.question_text)
         IN ExtendAllDedup(Tail(results),
                           IF r.kind = "list" THEN acc \o fresh ELSE acc)
RECURSIVE ExtendAll(_, _)
ExtendAll(results, acc) ==
    IF results = <<>> THEN acc
    ELSE LET r == Head(results)
         IN ExtendAll(Tail(results),
                      IF r.kind = "list" THEN acc \o r.value ELSE acc)

\* How scrape_all_sources ends once gather has returned.
ScrapeAllSourcesEndRaiseOnEmpty(results) ==
    LET all_questions == ExtendAll(results, <<>>)
    IN IF all_questions = <<>> THEN [kind |-> "raise", value |-> <<>>]
       ELSE [kind |-> "return", value |-> all_questions]
ScrapeAllSourcesEnd(results) ==
    [kind |-> "return", value |-> ExtendAll(results, <<>>)]

(***************************************************************************)
(* WebScraper: steps                                                       *)
(***************************************************************************)
\* pc: "absent" | "sleep" | "wait" | "fetch" | "done"; sub: the subreddit the
\* Reddit adapter is at; questions: its list so far; outcome: how the
\* adapter's last fetch ended; result: what the coroutine returned.
\* scrape_page begins with `await asyncio.sleep(settings.SCRAPING_DELAY)`.
ScrapePageEntryNoDelay == "wait"
ScrapePageEntry == "sleep"

NoTask == [pc |-> "absent", sub |-> 0, questions |-> <<>>, outcome |-> "",
           result |-> [kind |-> "none", value |-> <<>>]]

InitScrape ==
    /\ max_concurrent_requests \in 1..MaxConfigured
    /\ session = None
    /\ scrape_pc = "idle"
    /\ topic = None
    /\ company = None
    /\ task = [i \in Adapters |-> NoTask]
    /\ done_order = <<>>
    /\ ret = [kind |-> "none", value |-> <<>>]

\* async with WebScraper() as scraper: the client is created.
AEnter ==
    /\ UNCHANGED <<dbVars, quizVars, notifyVars, loopVars, extract, parse, peer>>
    /\ session = None
    /\ scrape_pc = "idle"
    /\ session' = "open"
    /\ UNCHANGED <<max_concurrent_requests, scrape_pc, topic, company, task,
                   done_order, ret>>

\* scrape_all_sources(topic, company) up to its await of gather: every
\* coroutine is scheduled and runs to its first await, the politeness sleep
\* (the Reddit adapter starts with its first subreddit).
ScrapeAllSources(tpc, comp) ==
    /\ UNCHANGED <<dbVars, quizVars, notifyVars, loopVars, extract, parse, peer>>
    /\ scrape_pc = "idle"
    /\ scrape_pc' = "gather"
    /\ topic' = tpc
    /\ company' = comp
    /\ task' = [i \in Adapters |->
                 IF i \in TasksFor(comp)
                 THEN [NoTask EXCEPT !.pc = ScrapePageEntry,
                                     !.sub = IF i = Reddit THEN 1 ELSE 0]
                 ELSE NoTask]
    /\ UNCHANGED <<max_concurrent_requests, session, done_order, ret>>

\* scrape_reddit_interviews, lines 235-270: what makes the adapter leave its
\* loop over the subreddits.  No page (`if not html`) and a JSONDecodeError
\* (inner handler) end in `continue`; any other exception reaches the outer
\* handler, after which the questions so far are returned.
LeavesLoopOnBadJson(html) == html.kind \in {"garbage", "badjson"}
LeavesLoop(html) == html.kind = "garbage"

\* The adapter coroutine i continues after scrape_page returned `html`.
\* Structured adapters parse and return; the Reddit adapter handles the
\* subreddit and goes on to the next one, or returns after the last one or
\* on an exception outside the JSON handler.
AfterPage(i, resp) ==
    LET html == scrape_page_result(resp)
        t == task[i]
    IN IF i \in Structured
       THEN /\ task' = [task EXCEPT ![i] =
                   [t EXCEPT !.pc = "done", !.outcome = resp.kind,
                             !.result = [kind |-> "list",
                                         value |-> scrape_structured(i, topic, html)]]]
            /\ done_order' = Append(done_order, i)
       ELSE LET aborted == LeavesLoop(html)
                got == IF html.kind = "page"
                       THEN RedditPageQuestions(html.body, company)
                       ELSE <<>>
                qs == t.questions \o got
                last == aborted \/ t.sub = Len(Subreddits)
            IN /\ task' = [task EXCEPT ![i] =
                      IF last
                      THEN [t EXCEPT !.pc = "done", !.questions = qs,
                                     !.outcome = resp.kind,
                                     !.result = [kind |-> "list", value |-> qs]]
                      ELSE [t EXCEPT !.pc = ScrapePageEntry, !.sub = t.sub + 1,
                                     !.questions = qs, !.outcome = resp.kind]]
               /\ done_order' = IF last THEN Append(done_order, i) ELSE done_order

\* scrape_page: asyncio.sleep(SCRAPING_DELAY) is over and self.session.get
\* is called.  With no usable client the call raises at once, which
\* scrape_page catches.
SleepOver(i) ==
    /\ UNCHANGED <<dbVars, quizVars, notifyVars, loopVars, extract, parse, peer>>
    /\ scrape_pc = "gather"
    /\ task[i].pc = "sleep"
    /\ IF session = "open"
       THEN /\ task' = [task EXCEPT ![i].pc = "wait"]
            /\ UNCHANGED done_order
       ELSE AfterPage(i, Fail)
    /\ UNCHANGED <<max_concurrent_requests, session, scrape_pc, topic, company, ret>>

\* The connection pool hands the request a connection.
Acquire(i) ==
    /\ UNCHANGED <<dbVars, quizVars, notifyVars, loopVars, extract, parse, peer>>
    /\ scrape_pc = "gather"
    /\ task[i].pc = "wait"
    /\ PoolHasCapacity
    /\ task' = [task EXCEPT ![i].pc = "fetch"]
    /\ UNCHANGED <<max_concurrent_requests, session, scrape_pc, topic, company,
                   done_order, ret>>

\* timeout=30.0 also bounds the wait for a connection: PoolTimeout is raised
\* and caught by scrape_page.
PoolTimeout(i) ==
    /\ UNCHANGED <<dbVars, quizVars, notifyVars, loopVars, extract, parse, peer>>
    /\ scrape_pc = "gather"
    /\ task[i].pc = "wait"
    /\ ~PoolHasCapacity
    /\ AfterPage(i, Fail)
    /\ UNCHANGED <<max_concurrent_requests, session, scrape_pc, topic, company, ret>>

\* The exchange ends (the connection is released) and the coroutine runs on
\* to its next await or to its end.
Respond(i, resp) ==
    /\ UNCHANGED <<dbVars, quizVars, notifyVars, loopVars, extract, parse, peer>>
    /\ scrape_pc = "gather"
    /\ task[i].pc = "fetch"
    /\ AfterPage(i, resp)
    /\ UNCHANGED <<max_concurrent_requests, session, scrape_pc, topic, company, ret>>

\* gather returns once every coroutine is done; the results are folded.
GatherDone ==
    /\ UNCHANGED <<dbVars, quizVars, notifyVars, loopVars, extract, parse, peer>>
    /\ scrape_pc = "gather"
    /\ \A i \in TasksFor(company) : task[i].pc = "done"
    /\ ret' = ScrapeAllSourcesEnd(GatherResults)
    /\ scrape_pc' = "done"
    /\ UNCHANGED <<max_concurrent_requests, session, topic, company, task,
                   done_order>>

NextScrape ==
    \/ AEnter
    \/ \E tpc \in Topics, comp \in Companies : ScrapeAllSources(tpc, comp)
    \/ \E i \in Adapters : SleepOver(i)
    \/ \E i \in Adapters : Acquire(i)
    \/ \E i \in Adapters : PoolTimeout(i)
    \/ \E i \in Adapters : \E resp \in Responses(i) : Respond(i, resp)
    \/ GatherDone

(***************************************************************************)
(* WebScraper: the container loop of the structured adapters, on its own   *)
(***************************************************************************)
\* number of containers of a page (0..MaxContainers)
MaxContainers == 3

\* The containers pages are made of: two well-formed ones, one whose
\* question-text element is empty, one whose element holds a blank, one
\* without the element, one on which the code raises.
ContainerKinds ==
    {WellFormed(TextQ1), WellFormed(TextQ2Padded), WellFormed(<<>>),
     WellFormed(TextBlank), NoQuestionText, Malformed}

RECURSIVE PagesOf(_)
PagesOf(n) ==
    IF n = 0 THEN {<<>>}
    ELSE LET shorter == PagesOf(n - 1)
         IN shorter \cup {Append(pg, c) : pg \in shorter, c \in ContainerKinds}
Pages == PagesOf(MaxContainers)

\* A page handed to the loop of one of the three adapters.
InitParse ==
    parse \in {[adapter |-> i, topic |-> tpc, containers |-> pg, done |-> FALSE,
                questions |-> <<>>] :
                  i \in Structured, tpc \in Topics, pg \in Pages}

ParseUnused ==
    parse = [adapter |-> TCYOnline, topic |-> None, containers |-> <<>>,
             done |-> FALSE, questions |-> <<>>]

\* Lines 75-103 (127-156, 180-217): the loop over the containers.
ParsePage ==
    /\ ~parse.done
    /\ parse' = [parse EXCEPT
                   !.done = TRUE,
                   !.questions = ForEachContainer(parse.adapter, parse.topic,
                                                  parse.containers, <<>>)]
    /\ UNCHANGED <<max_concurrent_requests, session, scrape_pc, topic, company,
                   task, done_order, ret, extract, peer,
                   dbVars, quizVars, notifyVars, loopVars>>

(***************************************************************************)
(* WebScraper: a second instance in the same process                       *)
(***************************************************************************)
\* Another WebScraper running scrape_all_sources without a company, at the
\* level of its fetches: sleeping, waiting and in_flight are the numbers of
\* its adapter coroutines in the politeness sleep, waiting for a connection
\* of its own client, and holding one.
PeerIdle == [session |-> None, started |-> FALSE, sleeping |-> 0, waiting |-> 0,
             in_flight |-> 0]

PeerUnused == peer = PeerIdle

\* Its __aenter__: a client of its own, with the same limits.
PeerAEnter ==
    /\ peer.session = None
    /\ peer' = [peer EXCEPT !.session = "open"]
    /\ UNCHANGED <<max_concurrent_requests, session, scrape_pc, topic, company,
                   task, done_order, ret, extract, parse,
                   dbVars, quizVars, notifyVars, loopVars>>

\* Its scrape_all_sources(topic): the three structured adapters start.
PeerScrapeAllSources ==
    /\ peer.session = "open"
    /\ ~peer.started
    /\ peer' = [peer EXCEPT !.started = TRUE,
                            !.sleeping = Cardinality(TasksFor(None))]
    /\ UNCHANGED <<max_concurrent_requests, session, scrape_pc, topic, company,
                   task, done_order, ret, extract, parse,
                   dbVars, quizVars, notifyVars, loopVars>>

\* One of its coroutines ends its sleep and calls self.session.get.
PeerSleepOver ==
    /\ peer.sleeping > 0
    /\ peer' = [peer EXCEPT !.sleeping = @ - 1, !.waiting = @ + 1]
    /\ UNCHANGED <<max_concurrent_requests, session, scrape_pc, topic, company,
                   task, done_order, ret, extract, parse,
                   dbVars, quizVars, notifyVars, loopVars>>

\* The pool of its client hands a request a connection: max_connections
\* counts the connections of that client only.
PeerPoolHasCapacity == peer.in_flight < max_concurrent_requests

PeerAcquire ==
    /\ peer.waiting > 0
    /\ PeerPoolHasCapacity
    /\ peer' = [peer EXCEPT !.waiting = @ - 1, !.in_flight = @ + 1]
    /\ UNCHANGED <<max_concurrent_requests, session, scrape_pc, topic, company,
                   task, done_order, ret, extract, parse,
                   dbVars, quizVars, notifyVars, loopVars>>

\* One of its exchanges ends.
PeerRespond ==
    /\ peer.in_flight > 0
    /\ peer' = [peer EXCEPT !.in_flight = @ - 1]
    /\ UNCHANGED <<max_concurrent_requests, session, scrape_pc, topic, company,
                   task, done_order, ret, extract, parse,
                   dbVars, quizVars, notifyVars, loopVars>>


(***************************************************************************)
(* Persistent tables: users, user_topics, daily_quiz_schedules             *)
(***************************************************************************)
\* number of topics a user can be associated with
NumTopics == 6
\* last day the clock reaches (days 0..MaxDay)
MaxDay == 1

Users == {1, 2}
TopicIds == 1..NumTopics

\* UserTopic.priority (1-5) of topic t under two assignments:
\* 5,3,1,4,2,5,... and 1,2,3,4,5,1,...
PriorityPatterns == {"spread", "rising"}
Priority(pattern, t) ==
    IF pattern = "spread" THEN 5 - ((2 * (t - 1)) % 5)
                          ELSE ((t - 1) % 5) + 1

\* The sets of topics whose association is active, for one user.
ActiveChoices == {{}, 1..3, TopicIds}

UserTopicRows(pattern, active) ==
    [t \in TopicIds |->
        [topic_id |-> t, priority |-> Priority(pattern, t),
         is_active |-> t \in active]]

\* DailyQuizSchedule(user_id, scheduled_date, topics, questions_per_topic);
\* is_completed defaults to False.
DailyQuizScheduleCompleted(u, date, tps, qpt) ==
    [user_id |-> u, scheduled_date |-> date, topics |-> tps,
     questions_per_topic |-> qpt, is_completed |-> TRUE]
DailyQuizSchedule(u, date, tps, qpt) ==
    [user_id |-> u, scheduled_date |-> date, topics |-> tps,
     questions_per_topic |-> qpt, is_completed |-> FALSE]

\* The results a query ORDER BY priority DESC can give for the rows S: every
\* sequence of S in non-increasing priority (rows of equal priority come in
\* any order).
RECURSIVE OrderByPriorityDesc(_)
OrderByPriorityDesc(S) ==
    IF S = {} THEN {<<>>}
    ELSE LET top == Max({r.priority : r \in S})
         IN UNION {{<<r>> \o rest : rest \in OrderByPriorityDesc(S \ {r})} :
                      r \in {x \in S : x.priority = top}}

\* select(UserTopic).where(user_id == u, is_active == True)
ActiveUserTopics(u) ==
    {user_topics[u][t] : t \in {x \in TopicIds : user_topics[u][x].is_active}}

\* user_topics[:5], as topic ids
TopK == 5
SelectedTopicsUncut(rows) ==
    [k \in 1..Len(rows) |-> rows[k].topic_id]
SelectedTopics(rows) ==
    [k \in 1..(IF Len(rows) < TopK THEN Len(rows) ELSE TopK) |-> rows[k].topic_id]

\* Number of rows of a table (a bag of rows) among the distinct rows `rows`.
RECURSIVE CountIn(_, _)
CountIn(rows, table) ==
    IF rows = {} THEN 0
    ELSE LET r == CHOOSE x \in rows : TRUE
         IN CopiesIn(r, table) + CountIn(rows \ {r}, table)

RECURSIVE SeqToBag(_)
SeqToBag(q) ==
    IF q = <<>> THEN EmptyBag ELSE SetToBag({Head(q)}) (+) SeqToBag(Tail(q))

\* The generator's existence check: the rows of u with
\* today <= scheduled_date < tomorrow.
ExistingTodayStrictlyAfter(table, u, today) ==
    CountIn({r \in BagToSet(table) :
        /\ r.user_id = u
        /\ r.scheduled_date > today
        /\ r.scheduled_date < today + 1},
            table)
ExistingToday(table, u, today) ==
    CountIn({r \in BagToSet(table) :
        /\ r.user_id = u
        /\ r.scheduled_date >= today
        /\ r.scheduled_date < today + 1},
            table)

\* create_user_quiz_schedule's existence check: the rows of u with
\* scheduled_date >= today.
ExistingFromToday(table, u, today) ==
    CountIn({r \in BagToSet(table) :
        /\ r.user_id = u
        /\ r.scheduled_date >= today},
            table)

\* select(User).where(is_active == True)
ActiveUsers == {u \in Users : users[u].is_active}

\* Every order in which a query without ORDER BY can return the rows S.
RECURSIVE AnyOrder(_)
AnyOrder(S) ==
    IF S = {} THEN {<<>>}
    ELSE UNION {{<<x>> \o rest : rest \in AnyOrder(S \ {x})} : x \in S}

InitDb ==
    /\ now = 0
    /\ users \in [Users -> [is_active : BOOLEAN, notification_enabled : {TRUE},
                           quiz_completion_goal : {1}]]
    /\ \E pattern \in PriorityPatterns :
          user_topics \in {[u \in Users |-> UserTopicRows(pattern, a[u])] :
                              a \in [Users -> ActiveChoices]}
    /\ quiz_schedules = EmptyBag

\* Midnight passes.
Tick ==
    /\ now < MaxDay
    /\ now' = now + 1
    /\ UNCHANGED <<scrapeVars, loopVars, notifyVars, users, user_topics, quiz_schedules, quizVars>>

(***************************************************************************)
(* SchedulerService: start, stop and the two background loops              *)
(***************************************************************************)
\* "quiz" is _daily_quiz_scheduler, "notify" is _notification_processor.
Jobs == {"quiz", "notify"}

\* number of start() calls that create tasks (1..MaxStarts)
MaxStarts == 2

\* The task the g-th such start() creates for job j: "quiz", "notify" for
\* the first one, "quiz#2", "notify#2" for the second one, and so on.
TaskId(j, g) == IF g = 1 THEN j ELSE j \o "#" \o ToString(g)
TasksOf(g) == {TaskId(j, g) : j \in Jobs}
TaskIds == UNION {TasksOf(g) : g \in 1..MaxStarts}
JobOf(t) == CHOOSE j \in Jobs : \E g \in 1..MaxStarts : TaskId(j, g) = t

\* The arguments of asyncio.sleep, in seconds.
QuizPeriod == 3600
NotifyPeriod == 900
ErrorDelay == 300

\* A loop task.  pc: "none" (not created), "test" (at `while self.is_running`),
\* "call" (in the try block, before the body is entered), "body" (in the
\* job body), "returned" (the body has returned, the session is closing),
\* "raised" (an exception reached the handler of the loop), "sleep" (in
\* asyncio.sleep(sleep)), "done" (the loop has exited); "direct" stands for
\* a job body called by another caller than the loop.  body_fault: the body
\* met a persistence fault in this iteration.  running_at_stop: stop() was
\* called while the task was between the test and its sleep.
NoJob == [pc |-> "none", sleep |-> 0, body_fault |-> FALSE, running_at_stop |-> FALSE]

RunningPcs == {"call", "body", "returned", "raised"}

\* A SchedulerService whose start() is never called: the job bodies are
\* called directly.
LoopUnused ==
    /\ is_running = FALSE
    /\ last_start = "none"
    /\ jobs = [t \in TaskIds |->
                 IF t \in Jobs THEN [NoJob EXCEPT !.pc = "direct"] ELSE NoJob]

\* After __init__.
InitLoop ==
    /\ is_running = FALSE
    /\ last_start = "none"
    /\ jobs = [t \in TaskIds |-> NoJob]

\* The body of job j is entered, by a loop of that job at "call" or
\* directly.  The model follows one call of each body at a time: a second
\* loop of the same job enters the body when the first one has left it.
Called(j, fault) ==
    /\ \E t \in TaskIds :
          /\ JobOf(t) = j
          /\ jobs[t].pc \in {"direct", "call"}
          /\ jobs' = IF jobs[t].pc = "call"
                     THEN [jobs EXCEPT ![t].pc = "body", ![t].body_fault = fault]
                     ELSE jobs
    /\ UNCHANGED <<is_running, last_start>>

\* A step inside the body of job j.
Inside(j) ==
    /\ \E t \in TaskIds : JobOf(t) = j /\ jobs[t].pc \in {"direct", "body"}
    /\ UNCHANGED loopVars

\* A step inside the body of job j at which the body meets a fault it
\* handles itself.
Faults(j) ==
    /\ \E t \in TaskIds :
          /\ JobOf(t) = j
          /\ jobs[t].pc \in {"direct", "body"}
          /\ jobs' = IF jobs[t].pc = "body"
                     THEN [jobs EXCEPT ![t].body_fault = TRUE]
                     ELSE jobs
    /\ UNCHANGED <<is_running, last_start>>

\* The body of job j ends: it returns, or an exception leaves it.
Returns(j, fault, raised) ==
    /\ \E t \in TaskIds :
          /\ JobOf(t) = j
          /\ jobs[t].pc \in {"direct", "body"}
          /\ jobs' = IF jobs[t].pc = "body"
                     THEN [jobs EXCEPT
                             ![t].pc = IF raised THEN "raised" ELSE "returned",
                             ![t].body_fault = @ \/ fault]
                     ELSE jobs
    /\ UNCHANGED <<is_running, last_start>>

\* `if self.is_running: return`
StartReturnsEarlyNever == FALSE
StartReturnsEarly == is_running

\* start(): nothing when the flag is set; otherwise the flag is set and a
\* task is created for each job, whatever tasks earlier calls created.
\* last_start: "none" before the first call, then "returned" when the last
\* call returned at once and "spawned" when it created tasks.
Start ==
    /\ IF StartReturnsEarly
       THEN /\ last_start' = "returned"
            /\ UNCHANGED <<is_running, jobs>>
       ELSE /\ last_start' = "spawned"
            /\ is_running' = TRUE
            /\ \E g \in 1..MaxStarts :
                  /\ \A t \in TasksOf(g) : jobs[t].pc = "none"
                  /\ \A h \in 1..(g - 1) : \A t \in TasksOf(h) : jobs[t].pc # "none"
                  /\ jobs' = [t \in TaskIds |->
                                IF t \in TasksOf(g) THEN [NoJob EXCEPT !.pc = "test"]
                                ELSE jobs[t]]
    /\ UNCHANGED <<scrapeVars, dbVars, quizVars, notifyVars>>

\* start() on a service on which it was never called before.
StartOnce ==
    /\ \A t \in TaskIds : jobs[t].pc = "none"
    /\ Start

\* stop()
Stop ==
    /\ is_running
    /\ is_running' = FALSE
    /\ jobs' = [t \in TaskIds |->
                  [jobs[t] EXCEPT !.running_at_stop = jobs[t].pc \in RunningPcs]]
    /\ UNCHANGED <<scrapeVars, dbVars, quizVars, notifyVars, last_start>>

\* `while self.is_running`
WhileConditionAlways == TRUE
WhileCondition == is_running

LoopTest(j) ==
    /\ jobs[j].pc = "test"
    /\ jobs' = [jobs EXCEPT ![j].pc = IF WhileCondition THEN "call" ELSE "done"]
    /\ UNCHANGED <<scrapeVars, dbVars, quizVars, notifyVars, is_running, last_start>>

\* `async with AsyncSessionLocal() as db` raises, entering or leaving.
SessionFault(j) ==
    /\ jobs[j].pc \in {"call", "returned"}
    /\ jobs' = [jobs EXCEPT ![j].pc = "raised"]
    /\ UNCHANGED <<scrapeVars, dbVars, quizVars, notifyVars, is_running, last_start>>

\* Lines 48 and 62: the sleep after the try block's body.
OnSuccessShortSleep(j, job) ==
    [job EXCEPT !.pc = "sleep", !.sleep = ErrorDelay]
OnSuccess(j, job) ==
    [job EXCEPT !.pc = "sleep",
                !.sleep = IF JobOf(j) = "quiz" THEN QuizPeriod ELSE NotifyPeriod]

\* Lines 50-52 and 64-66: the handler logs and sleeps.
OnExceptionExits(job) ==
    [job EXCEPT !.pc = "done"]
OnException(job) ==
    [job EXCEPT !.pc = "sleep", !.sleep = ErrorDelay]

SleepPeriod(j) ==
    /\ jobs[j].pc = "returned"
    /\ jobs' = [jobs EXCEPT ![j] = OnSuccess(j, @)]
    /\ UNCHANGED <<scrapeVars, dbVars, quizVars, notifyVars, is_running, last_start>>

Backoff(j) ==
    /\ jobs[j].pc = "raised"
    /\ jobs' = [jobs EXCEPT ![j] = OnException(@)]
    /\ UNCHANGED <<scrapeVars, dbVars, quizVars, notifyVars, is_running, last_start>>

\* Where a loop goes on after either sleep: both are the last statement of
\* the while body, so the condition is evaluated next.
AfterSleepSkipsTest == "call"
AfterSleep == "test"

\* The sleep is over: back to the test.
Wake(j) ==
    /\ jobs[j].pc = "sleep"
    /\ jobs' = [jobs EXCEPT ![j].pc = AfterSleep, ![j].sleep = 0, ![j].body_fault = FALSE]
    /\ UNCHANGED <<scrapeVars, dbVars, quizVars, notifyVars, is_running, last_start>>

(***************************************************************************)
(* SchedulerService._create_daily_quiz_schedules                           *)
(***************************************************************************)
\* A session's view of daily_quiz_schedules: the committed rows and the rows
\* the session itself added (flushed before each query).
View(added) == quiz_schedules (+) SeqToBag(added)

GenIdle == [pc |-> "idle", today |-> 0, todo |-> <<>>, added |-> <<>>]
\* A completed call: the day it ran for when it ended with its commit, -1
\* when it ended in its exception handler; the number of rows it committed;
\* the number of rows it had added when it was rolled back.
NoRun == [ok_day |-> -1, created |-> 0, rolled_back |-> 0]

\* `if not user_topics: continue`
NoTopicsNever(rows) == FALSE
NoTopics(rows) == rows = <<>>

\* db.rollback(): the table without the rows the session added.
RollbackKeepsAdded(table, added) == table (+) SeqToBag(added)
Rollback(table, added) == table

InitQuiz ==
    /\ gen = GenIdle
    /\ gen_runs = <<NoRun, NoRun>>
    /\ cu = [pc |-> "idle", user_id |-> 0, added |-> <<>>]

\* The call ends.  After a fault the handler's rollback can raise in its
\* turn, and that exception leaves the call.
GenEnds(fault, created) ==
    /\ gen' = GenIdle
    /\ gen_runs' = <<[gen_runs[2] EXCEPT !.created = 0, !.rolled_back = 0],
                     [ok_day |-> IF fault THEN -1 ELSE gen.today,
                      created |-> created,
                      rolled_back |-> IF fault THEN Len(gen.added) ELSE 0]>>
    /\ \E raised \in (IF fault THEN BOOLEAN ELSE {FALSE}) :
          Returns("quiz", fault, raised)

\* Lines 71-78: today is read and the active users are selected.
CreateDailyBegin ==
    /\ gen.pc = "idle"
    /\ \E order \in AnyOrder(ActiveUsers) :
          gen' = [pc |-> "loop", today |-> now, todo |-> order, added |-> <<>>]
    /\ Called("quiz", FALSE)
    /\ UNCHANGED <<scrapeVars, notifyVars, dbVars, gen_runs, cu>>

\* Lines 80-124, one iteration of the loop over the users.  More than one
\* existing row makes scalar_one_or_none raise, which ends the call in its
\* handler (rollback).
CreateDailyUser ==
    /\ gen.pc = "loop"
    /\ gen.todo # <<>>
    /\ LET u == Head(gen.todo)
           existing == ExistingToday(View(gen.added), u, gen.today)
       IN IF existing > 1
          THEN /\ GenEnds(TRUE, 0)
               /\ quiz_schedules' = Rollback(quiz_schedules, gen.added)
          ELSE /\ \E rows \in OrderByPriorityDesc(ActiveUserTopics(u)) :
                    gen' = [gen EXCEPT
                       !.todo = Tail(@),
                       !.added = IF existing > 0 \/ NoTopics(rows)
                                 THEN @
                                 ELSE Append(@, DailyQuizSchedule(
                                          u, now, SelectedTopics(rows), 1))]
               /\ Inside("quiz")
               /\ UNCHANGED <<gen_runs, quiz_schedules>>
    /\ UNCHANGED <<scrapeVars, notifyVars, now, users, user_topics, cu>>

\* Line 126: the commit makes every added row persistent.
CreateDailyCommit ==
    /\ gen.pc = "loop"
    /\ gen.todo = <<>>
    /\ quiz_schedules' = quiz_schedules (+) SeqToBag(gen.added)
    /\ GenEnds(FALSE, Len(gen.added))
    /\ UNCHANGED <<scrapeVars, notifyVars, now, users, user_topics, cu>>

\* Lines 129-131: a query or the commit raises; the handler logs, rolls the
\* session back and returns.
CreateDailyFault ==
    /\ gen.pc = "loop"
    /\ GenEnds(TRUE, 0)
    /\ quiz_schedules' = Rollback(quiz_schedules, gen.added)
    /\ UNCHANGED <<scrapeVars, notifyVars, now, users, user_topics, cu>>

(***************************************************************************)
(* SchedulerService.create_user_quiz_schedule                              *)
(***************************************************************************)
CuIdle == [pc |-> "idle", user_id |-> 0, added |-> <<>>]

\* Lines 136-179: the existence check, the topics query and db.add, on the
\* caller's session.  More than one existing row makes scalar_one_or_none
\* raise (handler: rollback, return).
CreateUserCheck(u) ==
    /\ cu.pc = "idle"
    /\ LET existing == ExistingFromToday(quiz_schedules, u, now)
       IN \E rows \in OrderByPriorityDesc(ActiveUserTopics(u)) :
            cu' = IF existing > 0 \/ rows = <<>>
                  THEN CuIdle
                  ELSE [pc |-> "commit", user_id |-> u,
                        added |-> <<DailyQuizSchedule(u, now, SelectedTopics(rows), 1)>>]
    /\ UNCHANGED <<scrapeVars, loopVars, notifyVars, dbVars, gen, gen_runs>>

\* Line 180: the commit.
CreateUserCommit ==
    /\ cu.pc = "commit"
    /\ quiz_schedules' = quiz_schedules (+) SeqToBag(cu.added)
    /\ cu' = CuIdle
    /\ UNCHANGED <<scrapeVars, loopVars, notifyVars, now, users, user_topics, gen, gen_runs>>

\* Lines 182-184: the commit raises; rollback.
CreateUserFault ==
    /\ cu.pc = "commit"
    /\ cu' = CuIdle
    /\ UNCHANGED <<scrapeVars, loopVars, notifyVars, dbVars, gen, gen_runs>>

(***************************************************************************)
(* NotificationService                                                     *)
(***************************************************************************)
ScheduleIds == {1, 2}
Frequencies == {"daily", "weekly", "monthly", "yearly"}

\* A nullable DateTime column: {} is NULL, {t} is the time t (in days).
Null == {}
At(t) == {t}

\* NotificationSchedule row.
NotificationSchedule(u, t, freq, active, last, next) ==
    [user_id |-> u, scheduled_time |-> t, frequency |-> freq,
     is_active |-> active, last_sent |-> last, next_send |-> next,
     title_template |-> "Daily Quiz Reminder",
     message_template |-> "Time to complete your daily quiz!"]

\* The WHERE clause of get_pending_notifications for schedule s at time t:
\* is_active, next_send <= now (never true of NULL), and the user's flags.
IsDueWhateverTheUser(s, t) ==
    /\ schedules[s].is_active
    /\ \E n \in schedules[s].next_send : n <= t
IsDue(s, t) ==
    /\ schedules[s].is_active
    /\ \E n \in schedules[s].next_send : n <= t
    /\ users[schedules[s].user_id].notification_enabled
    /\ users[schedules[s].user_id].is_active

\* The rows of u the completion check selects:
\* scheduled_date >= today and is_completed.
CompletedToday(u, today) ==
    CountIn({r \in BagToSet(quiz_schedules) :
        /\ r.user_id = u
        /\ r.scheduled_date >= today
        /\ r.is_completed},
            quiz_schedules)

\* `if not completed_today`: the pair goes into the pending list.
IncludeInPendingAlways(completed) == TRUE
IncludeInPending(completed) == completed = 0

\* timedelta added to scheduled_time, per frequency (none for another one).
Period(freq) ==
    CASE freq = "daily"   -> At(1)
      [] freq = "weekly"  -> At(7)
      [] freq = "monthly" -> At(30)
      [] OTHER            -> Null

\* Lines 270-280: what the loop does to the schedule after the send.
AfterSendFromSendTime(row, success, t) ==
    IF success
    THEN [row EXCEPT !.last_sent = At(t),
                     !.next_send = IF Period(row.frequency) = Null THEN @
                                   ELSE {t + d : d \in Period(row.frequency)}]
    ELSE row
AfterSendAlways(row, success, t) ==
    [row EXCEPT !.last_sent = At(t),
                !.next_send = IF Period(row.frequency) = Null THEN @
                              ELSE {row.scheduled_time + d : d \in Period(row.frequency)}]
AfterSend(row, success, t) ==
    IF success
    THEN [row EXCEPT !.last_sent = At(t),
                     !.next_send = IF Period(row.frequency) = Null THEN @
                                   ELSE {row.scheduled_time + d : d \in Period(row.frequency)}]
    ELSE row

\* send_quiz_reminder(user, fcm_token=None, db): the arguments it passes to
\* send_notification.
QuizReminderTitle == "Time for your daily quiz!"
send_quiz_reminder(u) ==
    [user_id |-> u,
     title |-> QuizReminderTitle,
     message |-> "Complete your quiz to stay on track with your "
                    \o ToString(users[u].quiz_completion_goal) \o " daily goal.",
     notification_type |-> "quiz_reminder"]

\* `for notification_data in pending`: the pairs left after one pair was
\* handled, whatever the result of its send.
NextPairsStopOnFailure(pending, success) ==
    IF success THEN Tail(pending) ELSE <<>>
NextPairs(pending, success) == Tail(pending)

\* pc: "idle" | "check" | "loop".  The other fields describe the current
\* call, or the last one when idle: tocheck, the pairs the query returned
\* whose completion check is still to come; pending, the list
\* get_pending_notifications builds and returns (schedule ids); snap, the
\* table as the call found it; selected, the schedules its query returned;
\* skipped, those among them whose user had completed the quiz; sent and
\* failed, those whose send succeeded (and was committed) or failed;
\* prev_failed, the failed ones of the call before; at, the `now` of its
\* query (line 206); forwarded, the calls of send_notification it made, in
\* order, each with the schedule it was made for and its result.
ProcIdle == [pc |-> "idle", tocheck |-> <<>>, pending |-> <<>>, snap |-> <<>>,
             selected |-> {}, skipped |-> {}, sent |-> {}, failed |-> {},
             prev_failed |-> {}, at |-> 0, forwarded |-> <<>>]

\* Notification row, as send_notification builds it from its arguments;
\* is_sent is False by default.
Notification(args, fcm_token, is_sent) ==
    [user_id |-> args.user_id, title |-> args.title, message |-> args.message,
     notification_type |-> args.notification_type, fcm_token |-> fcm_token,
     is_sent |-> is_sent]

\* send_notification(..., fcm_token, db=db): what it returns and the rows it
\* leaves committed.  fault: "none"; "store", db.add / db.commit raises and
\* nothing is stored; "fcm", messaging.send or the commit after it raises
\* and the row stays as it was stored.  Without a token the function
\* returns True right after storing the row (line 120).
send_notification(args, fcm_token, fault) ==
    IF firebase_app = None \/ fault = "store"
    THEN [success |-> FALSE, stored |-> <<>>]
    ELSE IF fcm_token = None
    THEN [success |-> TRUE, stored |-> <<Notification(args, None, FALSE)>>]
    ELSE IF fault = "fcm"
    THEN [success |-> FALSE, stored |-> <<Notification(args, fcm_token, FALSE)>>]
    ELSE [success |-> TRUE, stored |-> <<Notification(args, fcm_token, TRUE)>>]

\* One call of send_notification made for schedule s by the dispatcher,
\* which passes fcm_token=None (line 266): the arguments, the value
\* returned and the rows stored.
Forwarded(s, payload, success) ==
    [schedule |-> s, payload |-> payload, success |-> success,
     stored |-> IF success THEN <<Notification(payload, None, FALSE)>> ELSE <<>>]

\* The tables process_pending_notifications can find: schedule 1 of user 1 is
\* arbitrary, schedule 2 of user 2 is a daily one that is due or has no
\* next_send (as setup_daily_notifications leaves it); each user has today's
\* quiz row, not completed.
InitNotifyDb ==
    /\ now = 0
    /\ users \in {[u \in Users |-> IF u = 1 THEN f ELSE
                        [is_active |-> TRUE, notification_enabled |-> TRUE,
                         quiz_completion_goal |-> 1]] :
                    f \in [is_active : BOOLEAN, notification_enabled : BOOLEAN,
                          quiz_completion_goal : {1}]}
    /\ user_topics = [u \in Users |-> UserTopicRows("spread", 1..3)]
    /\ quiz_schedules = SetToBag({DailyQuizSchedule(u, 0, <<1, 2, 3>>, 1) : u \in Users})

InitNotify ==
    /\ firebase_app \in {"app", None}
    /\ proc = ProcIdle
    /\ \E t \in {-40, 0}, freq \in Frequencies, active \in BOOLEAN,
          n1 \in {Null, At(0), At(1)}, n2 \in {Null, At(0)} :
          schedules = [s \in ScheduleIds |->
              IF s = 1 THEN NotificationSchedule(1, t, freq, active, Null, n1)
                       ELSE NotificationSchedule(2, 0, "daily", TRUE, Null, n2)]

\* A NotificationService nothing calls.
NotifyUnused ==
    /\ firebase_app = None
    /\ proc = ProcIdle
    /\ schedules = [s \in ScheduleIds |->
                      NotificationSchedule(s, 0, "daily", TRUE, Null, Null)]

\* setup_daily_notifications(user_id, db): a daily quiz_reminder schedule is
\* added and committed, anchored at today's DEFAULT_NOTIFICATION_TIME.  The
\* constructor is given neither next_send nor last_sent (both NULL) and
\* is_active takes its default.  The new row gets the next id.  When the
\* commit raises the handler logs and nothing is stored.
SetupDailyNotifications(u) ==
    /\ Len(schedules) < Cardinality(ScheduleIds)
    /\ schedules' = Append(schedules,
                           NotificationSchedule(u, now, "daily", TRUE, Null, Null))
    /\ UNCHANGED <<scrapeVars, dbVars, quizVars, loopVars, firebase_app, proc>>

\* The user completes today's quiz: the row's is_completed is set.
CompleteQuiz(u) ==
    /\ \E r \in BagToSet(quiz_schedules) :
          /\ r.user_id = u /\ r.scheduled_date = now /\ ~r.is_completed
          /\ quiz_schedules' = (quiz_schedules (-) SetToBag({r}))
                                  (+) SetToBag({[r EXCEPT !.is_completed = TRUE]})
    /\ UNCHANGED <<scrapeVars, loopVars, quizVars, notifyVars, now, users, user_topics>>

\* get_pending_notifications, as called at line 257, up to the result of its
\* query (lines 206-220).
ProcessPendingBegin ==
    /\ proc.pc = "idle"
    /\ LET selected == {s \in DOMAIN schedules : IsDue(s, now)}
       IN \E order \in AnyOrder(selected) :
            proc' = [ProcIdle EXCEPT
                       !.pc = IF order = <<>> THEN "loop" ELSE "check",
                       !.tocheck = order, !.snap = schedules,
                       !.selected = selected,
                       !.prev_failed = proc.failed, !.at = now]
    /\ Called("notify", FALSE)
    /\ UNCHANGED <<scrapeVars, dbVars, quizVars, schedules, firebase_app>>

\* Lines 223-246 for the next pair of the query's result: the completion
\* check.  More than one completed row makes scalar_one_or_none raise, and
\* the handler (lines 250-252) returns [].
ProcessPendingCheck ==
    /\ proc.pc = "check"
    /\ LET s == Head(proc.tocheck)
           completed == CompletedToday(schedules[s].user_id, now)
           rest == Tail(proc.tocheck)
       IN proc' =
            IF completed > 1
            THEN [ProcIdle EXCEPT !.pc = "loop", !.snap = proc.snap,
                                  !.at = proc.at]
            ELSE [proc EXCEPT
                    !.pc = IF rest = <<>> THEN "loop" ELSE "check",
                    !.tocheck = rest,
                    !.pending = IF IncludeInPending(completed)
                                THEN Append(@, s) ELSE @,
                    !.skipped = IF completed > 0 THEN @ \cup {s} ELSE @]
    /\ Inside("notify")
    /\ UNCHANGED <<scrapeVars, dbVars, quizVars, schedules, firebase_app>>

\* Lines 250-252: a query raises; get_pending_notifications returns [].
ProcessPendingQueryFault ==
    /\ \/ /\ proc.pc = "idle"
          /\ proc' = [ProcIdle EXCEPT !.pc = "loop", !.snap = schedules, !.at = now]
          /\ Called("notify", TRUE)
       \/ /\ proc.pc = "check"
          /\ proc' = [ProcIdle EXCEPT !.pc = "loop", !.snap = proc.snap,
                                      !.at = proc.at]
          /\ Faults("notify")
    /\ UNCHANGED <<scrapeVars, dbVars, quizVars, schedules, firebase_app>>

\* Lines 259-282 for the next pair, with the send's result: it can succeed
\* only with Firebase initialised (send_notification line 59); storing the
\* Notification row can raise, which send_notification reports as False.
\* After a successful send the schedule is updated and committed.
ProcessPendingSend(success) ==
    /\ proc.pc = "loop"
    /\ proc.pending # <<>>
    /\ LET s == Head(proc.pending)
           payload == send_quiz_reminder(schedules[s].user_id)
       IN /\ \E fault \in {"none", "store"} :
                LET result == send_notification(payload, None, fault)
                IN /\ result.success = success
                   /\ result.stored = Forwarded(s, payload, success).stored
          /\ schedules' = [schedules EXCEPT ![s] = AfterSend(@, success, now)]
          /\ proc' = [proc EXCEPT
                        !.pending = NextPairs(@, success),
                        !.sent = IF success THEN @ \cup {s} ELSE @,
                        !.failed = IF success THEN @ ELSE @ \cup {s},
                        !.forwarded = Append(@, Forwarded(s, payload, success))]
    /\ Inside("notify")
    /\ UNCHANGED <<scrapeVars, dbVars, quizVars, firebase_app>>

\* Lines 282-285: the commit after a successful send raises; the handler
\* logs and the call ends, the schedule's new values are not persisted.
ProcessPendingCommitFault ==
    /\ proc.pc = "loop"
    /\ proc.pending # <<>>
    /\ firebase_app = "app"
    /\ LET s == Head(proc.pending)
           payload == send_quiz_reminder(schedules[s].user_id)
       IN proc' = [proc EXCEPT
                     !.pc = "idle", !.pending = <<>>,
                     !.forwarded = Append(@, Forwarded(s, payload, TRUE))]
    /\ Returns("notify", TRUE, FALSE)
    /\ UNCHANGED <<scrapeVars, dbVars, quizVars, schedules, firebase_app>>

\* The loop is over.
ProcessPendingEnd ==
    /\ proc.pc = "loop"
    /\ proc.pending = <<>>
    /\ proc' = [proc EXCEPT !.pc = "idle"]
    /\ Returns("notify", FALSE, FALSE)
    /\ UNCHANGED <<scrapeVars, dbVars, quizVars, schedules, firebase_app>>

\* A WebScraper that is never used.
ScrapeUnused ==
    /\ max_concurrent_requests = MaxConfigured
    /\ session = None
    /\ scrape_pc = "idle"
    /\ topic = None
    /\ company = None
    /\ task = [i \in Adapters |-> NoTask]
    /\ done_order = <<>>
    /\ ret = [kind |-> "none", value |-> <<>>]
    /\ ParseUnused
    /\ PeerUnused

\* Tables nothing reads or writes.
DbUnused ==
    /\ now = 0
    /\ users = [u \in Users |-> [is_active |-> TRUE, notification_enabled |-> TRUE,
                         quiz_completion_goal |-> 1]]
    /\ user_topics = [u \in Users |-> UserTopicRows("spread", {})]
    /\ quiz_schedules = EmptyBag

(***************************************************************************)
(* Specifications                                                          *)
(***************************************************************************)
InitScrapeOnly ==
    /\ InitScrape /\ ExtractUnused /\ ParseUnused /\ PeerUnused
    /\ DbUnused /\ InitQuiz /\ NotifyUnused /\ LoopUnused
SpecScrape == InitScrapeOnly /\ [][NextScrape]_vars

\* The container loop applied to each page.
NextParse == ParsePage

InitParseOnly ==
    /\ InitScrape /\ ExtractUnused /\ InitParse /\ PeerUnused
    /\ DbUnused /\ InitQuiz /\ NotifyUnused /\ LoopUnused
SpecParse == InitParseOnly /\ [][NextParse]_vars

\* Two WebScraper instances at work in one process, each in one
\* scrape_all_sources call without a company; every fetch of the first one
\* ends in a transport error.
NextPeers ==
    \/ AEnter
    \/ \E tpc \in Topics : ScrapeAllSources(tpc, None)
    \/ \E i \in Adapters : SleepOver(i)
    \/ \E i \in Adapters : Acquire(i)
    \/ \E i \in Adapters : PoolTimeout(i)
    \/ \E i \in Adapters : Respond(i, Fail)
    \/ GatherDone
    \/ PeerAEnter
    \/ PeerScrapeAllSources
    \/ PeerSleepOver
    \/ PeerAcquire
    \/ PeerRespond

InitPeers ==
    /\ InitScrape /\ ExtractUnused /\ ParseUnused /\ PeerUnused
    /\ DbUnused /\ InitQuiz /\ NotifyUnused /\ LoopUnused
SpecPeers == InitPeers /\ [][NextPeers]_vars

\* Schedules are set up for users while process_pending_notifications is
\* called again and again and days pass.  Firebase is initialised and no
\* send, query or commit fails; both users are active with notifications
\* enabled and no quiz row is completed.
NextSetup ==
    \/ Tick
    \/ \E u \in Users : SetupDailyNotifications(u)
    \/ ProcessPendingBegin
    \/ ProcessPendingCheck
    \/ ProcessPendingSend(TRUE)
    \/ ProcessPendingEnd

InitSetupTables ==
    /\ now = 0
    /\ users = [u \in Users |-> [is_active |-> TRUE, notification_enabled |-> TRUE,
                                quiz_completion_goal |-> 1]]
    /\ user_topics = [u \in Users |-> UserTopicRows("spread", 1..3)]
    /\ quiz_schedules \in {EmptyBag,
                           SetToBag({DailyQuizSchedule(u, 0, <<1, 2, 3>>, 1) : u \in Users})}
    /\ schedules \in {<<>>, <<NotificationSchedule(1, 0, "daily", TRUE, Null, At(0))>>}
    /\ firebase_app = "app"
    /\ proc = ProcIdle

InitSetup ==
    ScrapeUnused /\ ExtractUnused /\ InitSetupTables /\ InitQuiz /\ LoopUnused
SpecSetup == InitSetup /\ [][NextSetup]_vars

\* The notification job keeps running: a call of the dispatcher that can
\* begin or go on does, and days pass.
DispatcherNext ==
    \/ ProcessPendingBegin
    \/ ProcessPendingCheck
    \/ ProcessPendingSend(TRUE)
    \/ ProcessPendingEnd
FairSpecSetup == SpecSetup /\ WF_vars(DispatcherNext) /\ WF_vars(Tick)

\* The generator called again and again while days pass, on tables in which
\* user 1 has no row, one row or two rows for day 0 (two calls that checked
\* before either committed leave two) and user 2 has none.  Persistence
\* faults have ceased: no query and no commit raises for a reason outside
\* the code.
NextBatch ==
    \/ Tick
    \/ CreateDailyBegin
    \/ CreateDailyUser
    \/ CreateDailyCommit

InitBatchTables ==
    /\ now = 0
    /\ users = [u \in Users |-> [is_active |-> TRUE, notification_enabled |-> TRUE,
                                quiz_completion_goal |-> 1]]
    /\ user_topics \in {[u \in Users |-> UserTopicRows("spread", a[u])] :
                            a \in [Users -> {{}, 1..3}]}
    /\ \E n \in 0..2 :
          quiz_schedules = [r \in (IF n = 0 THEN {}
                                   ELSE {DailyQuizSchedule(1, 0, <<1, 2, 3>>, 1)})
                              |-> n]

InitBatch ==
    ScrapeUnused /\ ExtractUnused /\ InitBatchTables /\ InitQuiz /\ NotifyUnused
        /\ LoopUnused
SpecBatch == InitBatch /\ [][NextBatch]_vars

\* The quiz-schedule job keeps running: a call of the generator that can
\* begin or go on does.
GeneratorNext ==
    \/ CreateDailyBegin
    \/ CreateDailyUser
    \/ CreateDailyCommit
FairSpecBatch == SpecBatch /\ WF_vars(GeneratorNext)

\* The extractor applied to each text.
NextExtract == ExtractQuestionsFromText

InitExtractOnly ==
    ScrapeUnused /\ InitExtract /\ DbUnused /\ InitQuiz /\ NotifyUnused /\ LoopUnused
SpecExtract == InitExtractOnly /\ [][NextExtract]_vars

\* The generator alone, called again and again.
NextGen ==
    \/ Tick
    \/ CreateDailyBegin
    \/ CreateDailyUser
    \/ CreateDailyCommit
    \/ CreateDailyFault

InitGen ==
    ScrapeUnused /\ InitDb /\ InitQuiz /\ NotifyUnused /\ LoopUnused /\ ExtractUnused
SpecGen == InitGen /\ [][NextGen]_vars

\* The generator and create_user_quiz_schedule calls, each on its own session.
NextQuiz ==
    \/ Tick
    \/ CreateDailyBegin
    \/ CreateDailyUser
    \/ CreateDailyCommit
    \/ CreateDailyFault
    \/ \E u \in Users : CreateUserCheck(u)
    \/ CreateUserCommit
    \/ CreateUserFault

\* Users with no or three active topics, priorities 5, 3, 1.
InitDbThreeTopics ==
    /\ now = 0
    /\ users \in [Users -> [is_active : BOOLEAN, notification_enabled : {TRUE},
                           quiz_completion_goal : {1}]]
    /\ user_topics \in {[u \in Users |-> UserTopicRows("spread", a[u])] :
                            a \in [Users -> {{}, 1..3}]}
    /\ quiz_schedules = EmptyBag

InitQuizRace ==
    ScrapeUnused /\ InitDbThreeTopics /\ InitQuiz /\ NotifyUnused /\ LoopUnused /\ ExtractUnused
SpecQuiz == InitQuizRace /\ [][NextQuiz]_vars

\* process_pending_notifications called again and again, while time passes
\* and users complete their quiz.
NextNotify ==
    \/ Tick
    \/ \E u \in Users : CompleteQuiz(u)
    \/ ProcessPendingBegin
    \/ ProcessPendingCheck
    \/ ProcessPendingQueryFault
    \/ \E success \in BOOLEAN : ProcessPendingSend(success)
    \/ ProcessPendingCommitFault
    \/ ProcessPendingEnd

InitNotifyOnly ==
    ScrapeUnused /\ InitNotifyDb /\ InitQuiz /\ InitNotify /\ LoopUnused /\ ExtractUnused
SpecNotify == InitNotifyOnly /\ [][NextNotify]_vars

\* The service with its two loops: start() called once, stop() at any time.  Both
\* users are active with three active topics and no quiz row yet; schedule 1
\* is due, schedule 2 has no next_send.
InitLoopTables ==
    /\ now = 0
    /\ users = [u \in Users |-> [is_active |-> TRUE, notification_enabled |-> TRUE,
                         quiz_completion_goal |-> 1]]
    /\ user_topics = [u \in Users |-> UserTopicRows("spread", 1..3)]
    /\ quiz_schedules = EmptyBag
    /\ firebase_app = "app"
    /\ proc = ProcIdle
    /\ schedules = [s \in ScheduleIds |->
          NotificationSchedule(s, 0, "daily", TRUE, Null,
                               IF s = 1 THEN At(0) ELSE Null)]

\* The steps of the task of job j, its body included.
JobNext(j) ==
    \/ LoopTest(j)
    \/ SessionFault(j)
    \/ SleepPeriod(j)
    \/ Backoff(j)
    \/ Wake(j)
    \/ /\ j = "quiz"
       /\ \/ CreateDailyBegin
          \/ CreateDailyUser
          \/ CreateDailyCommit
          \/ CreateDailyFault
    \/ /\ j = "notify"
       /\ \/ ProcessPendingBegin
          \/ ProcessPendingCheck
          \/ ProcessPendingQueryFault
          \/ \E success \in BOOLEAN : ProcessPendingSend(success)
          \/ ProcessPendingCommitFault
          \/ ProcessPendingEnd

NextLoop ==
    \/ StartOnce
    \/ Stop
    \/ \E j \in Jobs : LoopTest(j)
    \/ \E j \in Jobs : SessionFault(j)
    \/ \E j \in Jobs : SleepPeriod(j)
    \/ \E j \in Jobs : Backoff(j)
    \/ \E j \in Jobs : Wake(j)
    \/ CreateDailyBegin
    \/ CreateDailyUser
    \/ CreateDailyCommit
    \/ CreateDailyFault
    \/ ProcessPendingBegin
    \/ ProcessPendingCheck
    \/ ProcessPendingQueryFault
    \/ \E success \in BOOLEAN : ProcessPendingSend(success)
    \/ ProcessPendingCommitFault
    \/ ProcessPendingEnd

InitLoopAll ==
    ScrapeUnused /\ InitLoopTables /\ InitQuiz /\ InitLoop /\ ExtractUnused
SpecLoop == InitLoopAll /\ [][NextLoop]_vars

\* The event loop runs every task that can run, and every sleep ends.
FairSpecLoop == SpecLoop /\ \A j \in Jobs : WF_vars(JobNext(j))

\* One iteration of each loop, the two interleaved in every way: start() is
\* called once and no sleep ends.  Both users are active with three active
\* topics and no quiz row; both schedules are due.
PairQuizSchedules == EmptyBag
PairSchedules ==
    [s \in ScheduleIds |-> NotificationSchedule(s, 0, "daily", TRUE, Null, At(0))]

InitPairTables ==
    /\ now = 0
    /\ users = [u \in Users |-> [is_active |-> TRUE, notification_enabled |-> TRUE,
                                quiz_completion_goal |-> 1]]
    /\ user_topics = [u \in Users |-> UserTopicRows("spread", 1..3)]
    /\ quiz_schedules = PairQuizSchedules
    /\ firebase_app = "app"
    /\ proc = ProcIdle
    /\ schedules = PairSchedules

NextPair ==
    \/ StartOnce
    \/ \E j \in Jobs : LoopTest(j)
    \/ \E j \in Jobs : SessionFault(j)
    \/ \E j \in Jobs : SleepPeriod(j)
    \/ \E j \in Jobs : Backoff(j)
    \/ CreateDailyBegin
    \/ CreateDailyUser
    \/ CreateDailyCommit
    \/ CreateDailyFault
    \/ ProcessPendingBegin
    \/ ProcessPendingCheck
    \/ ProcessPendingQueryFault
    \/ \E success \in BOOLEAN : ProcessPendingSend(success)
    \/ ProcessPendingCommitFault
    \/ ProcessPendingEnd

InitPair ==
    ScrapeUnused /\ InitPairTables /\ InitQuiz /\ InitLoop /\ ExtractUnused
SpecPair == InitPair /\ [][NextPair]_vars

\* The service with start() and stop() called at any time, in any order,
\* and no fault in the job bodies or the sessions.
NextRestart ==
    \/ Start
    \/ Stop
    \/ \E t \in TaskIds : LoopTest(t)
    \/ \E t \in TaskIds : SleepPeriod(t)
    \/ \E t \in TaskIds : Wake(t)
    \/ CreateDailyBegin
    \/ CreateDailyUser
    \/ CreateDailyCommit
    \/ ProcessPendingBegin
    \/ ProcessPendingCheck
    \/ ProcessPendingSend(TRUE)
    \/ ProcessPendingEnd

\* One active user with three active topics and no quiz row yet; one due
\* schedule.
InitRestartTables ==
    /\ now = 0
    /\ users = [u \in Users |-> [is_active |-> u = 1, notification_enabled |-> TRUE,
                                quiz_completion_goal |-> 1]]
    /\ user_topics = [u \in Users |-> UserTopicRows("spread", 1..3)]
    /\ quiz_schedules = EmptyBag
    /\ firebase_app = "app"
    /\ proc = ProcIdle
    /\ schedules = [s \in ScheduleIds |->
          NotificationSchedule(s, 0, "daily", TRUE, Null,
                               IF s = 1 THEN At(0) ELSE Null)]

InitRestart ==
    ScrapeUnused /\ InitRestartTables /\ InitQuiz /\ InitLoop /\ ExtractUnused
SpecRestart == InitRestart /\ [][NextRestart]_vars

(***************************************************************************)
(* Properties of scrape_all_sources (checked under SpecScrape)             *)
(***************************************************************************)
SourceNames == {SourceName(i) : i \in Adapters}

IsScrapedQuestionSeq(v) ==
    /\ DOMAIN v = 1..Len(v)
    /\ \A k \in 1..Len(v) :
          /\ DOMAIN v[k] = {"question_text", "source_url", "source_name",
                            "company_name", "topic"}
          /\ v[k].source_name \in SourceNames

\* What adapter i handed to gather: its list, or nothing when it was not
\* launched or did not return a list.
Contribution(i) ==
    IF i \in TasksFor(company) /\ task[i].result.kind = "list"
    THEN task[i].result.value ELSE <<>>

FromSource(v, name) == SelectSeq(v, LAMBDA q : q.source_name = name)

\* C1: scrape_all_sources never raises and, once it has ended, it has
\* returned a sequence of records, whatever the adapters' outcomes were and
\* whether or not the HTTP session was ever opened.
C1_NeverRaises ==
    /\ ret.kind # "raise"
    /\ scrape_pc = "done" => ret.kind = "return" /\ IsScrapedQuestionSeq(ret.value)

\* C1 witness: a call with a company, made without opening the session, has
\* ended: all four adapters failed and the empty sequence was returned.
C1_Witness ==
    /\ scrape_pc = "done"
    /\ session = None
    /\ Truthy(company)
    /\ \A i \in Adapters : task[i].pc = "done" /\ task[i].result.value = <<>>
    /\ ret = [kind |-> "return", value |-> <<>>]

\* C2: the number of fetches holding a connection never exceeds the
\* configured maximum.
C2_InFlightBounded == InFlight <= max_concurrent_requests

\* C2 witness: the maximum is smaller than the number of adapters launched,
\* it is reached, and a further adapter is waiting for a connection.
C2_Witness ==
    /\ max_concurrent_requests < Cardinality(TasksFor(company))
    /\ InFlight = max_concurrent_requests
    /\ \E i \in Adapters : task[i].pc = "wait"

\* C3: the returned sequence holds, for every adapter, exactly the records
\* that adapter returned (none for an adapter that failed), so a failure
\* removes nothing from the siblings and equal question texts from different
\* adapters are all kept; with two structured adapters failing and the third
\* returning two records, exactly those two records are returned.
C3_ConcatenationOfSuccesses ==
    scrape_pc = "done" =>
        /\ \A i \in Adapters :
              FromSource(ret.value, SourceName(i)) = Contribution(i)
        /\ \A i \in Structured :
              task[i].outcome \in {"fail", "garbage"} =>
                  FromSource(ret.value, SourceName(i)) = <<>>
        /\ \A i \in Structured :
              ( /\ ~Truthy(company)
                /\ \A j \in Structured \ {i} : task[j].outcome \in {"fail", "garbage"}
                /\ task[i].outcome = "page"
                /\ Len(task[i].result.value) = 2 )
              => ret.value =
                   << ScrapedQuestion(TextQ1, SourceName(i), SourceName(i), None, topic),
                      ScrapedQuestion(TextQ2, SourceName(i), SourceName(i), None, topic) >>

\* C3 witness: TCYOnline's fetch failed, PrepInsta's parsing raised and
\* IndiaBIX returned two records; the call has returned two records.
C3_Witness ==
    /\ scrape_pc = "done"
    /\ ~Truthy(company)
    /\ task[TCYOnline].outcome = "fail"
    /\ task[PrepInsta].outcome = "garbage"
    /\ task[IndiaBIX].outcome = "page"
    /\ Len(task[IndiaBIX].result.value) = 2
    /\ Len(ret.value) = 2

\* C4: the returned sequence is the adapters' lists in declaration order
\* (TCYOnline, PrepInsta, IndiaBIX, Reddit), whatever the order in which the
\* coroutines completed.
C4_DeclarationOrder ==
    scrape_pc = "done" =>
        ret.value = Contribution(TCYOnline) \o Contribution(PrepInsta)
                        \o Contribution(IndiaBIX) \o Contribution(Reddit)

\* C4 witness: the coroutines completed in the reverse of the declaration
\* order and the first and the last adapter both returned records.
C4_Witness ==
    /\ scrape_pc = "done"
    /\ done_order = <<Reddit, IndiaBIX, PrepInsta, TCYOnline>>
    /\ Contribution(TCYOnline) # <<>>
    /\ Contribution(Reddit) # <<>>

(***************************************************************************)
(* Properties of _extract_questions_from_text (checked under SpecExtract)  *)
(***************************************************************************)
\* C17: the result has at most 5 entries, no two of them equal, and none of
\* length <= 10 after trimming.
C17_AtMostFiveDistinctLong ==
    extract.done =>
        LET r == extract.questions
        IN /\ Len(r) <= 5
           /\ \A i, j \in 1..Len(r) : i # j => r[i] # r[j]
           /\ \A i \in 1..Len(r) : Len(Strip(r[i])) > 10

\* C17 witness: a text with six distinct qualifying matches gave five
\* entries.
C17_Witness ==
    /\ extract.done
    /\ extract.text = PhraseQuestion \o PhraseQuestionDns \o PhraseLowerCase
    /\ Len(extract.questions) = 5

\* The trimmed matches of length > 10, pattern after pattern in the order Q,
\* Question, They asked, The interviewer asked, quoted, and within a pattern
\* in the order of their positions in the text.
Candidates(t) ==
    LET all == FindAll(t, PatternQ) \o FindAll(t, PatternQuestion)
                 \o FindAll(t, PatternTheyAsked)
                 \o FindAll(t, PatternInterviewerAsked)
                 \o FindAll(t, PatternQuoted)
        trimmed == [i \in 1..Len(all) |-> Strip(all[i])]
    IN SelectSeq(trimmed, LAMBDA q : Len(q) > 10)

\* Index of the first occurrence of q in the sequence c.
FirstIndex(c, q) == Min({i \in 1..Len(c) : c[i] = q})

\* C18: the result lists, without repetition and in the order of their first
\* occurrences among the candidates, the first 5 distinct candidates.
C18_PatternThenPositionOrder ==
    extract.done =>
        \A c \in {Candidates(extract.text)} :
        LET r == extract.questions
            distinct == {c[i] : i \in 1..Len(c)}
        IN /\ Len(r) = IF Cardinality(distinct) < 5 THEN Cardinality(distinct) ELSE 5
           /\ \A i \in 1..Len(r) : r[i] \in distinct
           /\ \A i, j \in 1..Len(r) :
                 i < j => FirstIndex(c, r[i]) < FirstIndex(c, r[j])
           /\ \A q \in distinct :
                 (\E i \in 1..Len(r) : FirstIndex(c, q) < FirstIndex(c, r[i]))
                     => \E i \in 1..Len(r) : r[i] = q

\* C18 witness: a question is quoted at the start of the text and follows
\* "Q1:" at its end, with a "Question 2." in between: the result has the
\* two matches of Q, then the match of Question; the quoted question is
\* there once, as the second match of Q.
C18_Witness ==
    /\ extract.done
    /\ extract.text = PhraseQuoted \o PhraseQuestion \o PhraseQ
    /\ Len(extract.questions) = 3
    /\ extract.questions[2] = FindAll(PhraseQuoted, PatternQuoted)[1]
    /\ extract.questions[3] = FindAll(PhraseQuestion, PatternQuestion)[1]

(***************************************************************************)
(* Properties of the quiz-schedule generator                               *)
(***************************************************************************)
Days == 0..MaxDay

\* Committed rows of user u dated day d.
EntriesFor(u, d) ==
    CountIn({r \in BagToSet(quiz_schedules) :
        /\ r.user_id = u
        /\ r.scheduled_date = d},
            quiz_schedules)

HasActiveTopic(u) == \E t \in TopicIds : user_topics[u][t].is_active
NumActiveTopics(u) == Cardinality({t \in TopicIds : user_topics[u][t].is_active})

\* C5: when two calls of the generator in succession both ran for the same
\* day and both ended with their commit, the second one created nothing and
\* every active user with an active topic has exactly one row for that day.
C5_SecondCallCreatesNothing ==
    (gen_runs[1].ok_day # -1 /\ gen_runs[1].ok_day = gen_runs[2].ok_day) =>
        /\ gen_runs[2].created = 0
        /\ \A u \in Users :
              users[u].is_active /\ HasActiveTopic(u) =>
                  EntriesFor(u, gen_runs[2].ok_day) = 1

\* C5 witness: two fault-free calls for day 0 have completed, both users are
\* active with active topics, and each has its row.
C5_Witness ==
    /\ gen_runs[1].ok_day = 0
    /\ gen_runs[2].ok_day = 0
    /\ \A u \in Users : users[u].is_active /\ HasActiveTopic(u)
    /\ \A u \in Users : EntriesFor(u, 0) = 1

\* C6: there is never more than one row per user and day.
C6_AtMostOnePerUserDay ==
    \A u \in Users, d \in Days : EntriesFor(u, d) <= 1

\* The row a generator step appended.
IsTopByPriority(u, row) ==
    LET n == NumActiveTopics(u)
        tps == row.topics
        prio(t) == user_topics[u][t].priority
    IN /\ row.user_id = u
       /\ row.questions_per_topic = 1
       /\ Len(tps) = IF n < 5 THEN n ELSE 5
       /\ \A k \in 1..Len(tps) : tps[k] \in TopicIds /\ user_topics[u][tps[k]].is_active
       /\ \A j, k \in 1..Len(tps) : j < k => tps[j] # tps[k] /\ prio(tps[j]) >= prio(tps[k])
       /\ \A t \in TopicIds :
             (user_topics[u][t].is_active /\ \A k \in 1..Len(tps) : tps[k] # t)
                 => \A k \in 1..Len(tps) : prio(t) <= prio(tps[k])

\* C7: a step of the generator's loop for a user with no row for today and
\* with k >= 1 active topics adds exactly one row: questions_per_topic 1 and
\* as topics the min(k, 5) active topics of highest priority, in
\* non-increasing priority, no inactive topic among them.
C7_TopFiveByPriority ==
    [][\A u \in Users :
        ( /\ gen.pc = "loop" /\ gen.todo # <<>> /\ Head(gen.todo) = u
          /\ gen'.pc = "loop" /\ gen'.todo = Tail(gen.todo)
          /\ EntriesFor(u, gen.today) = 0
          /\ \A k \in 1..Len(gen.added) : gen.added[k].user_id # u
          /\ NumActiveTopics(u) >= 1 )
        => /\ Len(gen'.added) = Len(gen.added) + 1
           /\ SubSeq(gen'.added, 1, Len(gen.added)) = gen.added
           /\ IsTopByPriority(u, gen'.added[Len(gen'.added)])
      ]_vars

\* C7 witness: a user whose active topics 1, 2, 3 have priorities 5, 3, 1
\* got the row with topics <<1, 2, 3>>; another row has five topics.
C7_Witness ==
    \E u \in Users :
        /\ NumActiveTopics(u) = 3
        /\ user_topics[u][1].priority = 5
        /\ user_topics[u][2].priority = 3
        /\ user_topics[u][3].priority = 1
        /\ \E k \in 1..Len(gen.added) :
              gen.added[k].user_id = u /\ gen.added[k].topics = <<1, 2, 3>>
        /\ \E k \in 1..Len(gen.added) : Len(gen.added[k].topics) = 5

\* C19: the loop step for a user with no active topic adds no row and goes
\* on to the next user without ending the call; and when a call has ended
\* with its commit, no active user without active topics has a row while
\* every active user with an active topic has one, dated the day the call
\* read as today or, when midnight passed during the call, the day after.
C19_NoTopicsUserSkipped ==
    /\ [][\A u \in Users :
            ( /\ gen.pc = "loop" /\ gen.todo # <<>> /\ Head(gen.todo) = u
              /\ ~HasActiveTopic(u)
              /\ CreateDailyUser )
            => /\ gen'.pc = "loop"
               /\ gen'.todo = Tail(gen.todo)
               /\ gen'.added = gen.added
         ]_vars
    /\ [](gen_runs[2].ok_day # -1 =>
            \A u \in Users :
                users[u].is_active =>
                    IF HasActiveTopic(u)
                    THEN \E d \in Days : /\ d >= gen_runs[2].ok_day
                                          /\ EntriesFor(u, d) = 1
                    ELSE \A d \in Days : EntriesFor(u, d) = 0)

\* C19 witness: a call has committed one row: that of user 2, while the
\* active user 1 has no active topic and no row.
C19_Witness ==
    /\ gen_runs[2].ok_day = 0
    /\ gen_runs[2].created = 1
    /\ users[1].is_active /\ ~HasActiveTopic(1)
    /\ users[2].is_active /\ HasActiveTopic(2)
    /\ EntriesFor(1, 0) = 0
    /\ EntriesFor(2, 0) = 1

\* C20: the table changes only at the end of a call: a call that ends in its
\* handler leaves the table as it was, whatever rows it had added, and a
\* call that ends with its commit adds all its rows at once.
C20_AllOrNothing ==
    [][ /\ (gen.pc = "loop" /\ gen'.pc = "loop") =>
              quiz_schedules' = quiz_schedules
        /\ (gen.pc = "loop" /\ gen'.pc = "idle" /\ gen_runs'[2].ok_day = -1) =>
              quiz_schedules' = quiz_schedules
        /\ (gen.pc = "loop" /\ gen'.pc = "idle" /\ gen_runs'[2].ok_day # -1) =>
              quiz_schedules' = quiz_schedules (+) SeqToBag(gen.added)
      ]_vars

\* C20 witness: a call met a fault after it had added the row of one user
\* and before the other user's turn; no row is in the table.
C20_Witness ==
    /\ \A u \in Users : users[u].is_active /\ HasActiveTopic(u)
    /\ gen_runs[2].ok_day = -1
    /\ gen_runs[2].rolled_back = 1
    /\ quiz_schedules = EmptyBag

(***************************************************************************)
(* Properties of process_pending_notifications (checked under SpecNotify)  *)
(***************************************************************************)
Range(q) == {q[k] : k \in 1..Len(q)}

\* C8: a dispatch whose send succeeded sets last_sent to the time of the
\* send and next_send to scheduled_time + 1 day (daily), + 7 days (weekly),
\* + 30 days (monthly).
C8_NextSendFromAnchor ==
    [][\A s \in ScheduleIds :
        (proc.pc = "loop" /\ s \notin proc.sent /\ s \in proc'.sent) =>
            /\ schedules'[s].last_sent = At(now)
            /\ schedules[s].frequency = "daily" =>
                  schedules'[s].next_send = At(schedules[s].scheduled_time + 1)
            /\ schedules[s].frequency = "weekly" =>
                  schedules'[s].next_send = At(schedules[s].scheduled_time + 7)
            /\ schedules[s].frequency = "monthly" =>
                  schedules'[s].next_send = At(schedules[s].scheduled_time + 30)
      ]_vars

\* C8 witness: a monthly schedule anchored 40 days before the send has been
\* sent: next_send is the anchor + 30 days, last_sent is the present time.
C8_Witness ==
    \E s \in proc.sent :
        /\ schedules[s].frequency = "monthly"
        /\ schedules[s].scheduled_time = -40
        /\ schedules[s].next_send = At(-10)
        /\ schedules[s].last_sent = At(now)

\* C9: a schedule the query selected as due while its user had completed
\* today's quiz is not sent by that call, keeps all its fields, and is still
\* due afterwards.
C9_CompletedNotSentNotMutated ==
    \A s \in proc.skipped :
        /\ s \notin proc.sent \cup proc.failed \cup Range(proc.pending)
        /\ schedules[s] = proc.snap[s]
        /\ IsDue(s, now)

\* C9 witness: a call has ended in which one due schedule was skipped for a
\* completed quiz while another one was sent.
C9_Witness ==
    /\ proc.pc = "idle"
    /\ proc.skipped # {}
    /\ proc.sent # {}

\* C10: a schedule whose send failed keeps its last_sent and next_send and
\* stays due; the next call selects it again and, unless its user has
\* completed the quiz meanwhile, processes it again.
C10_FailedSendLeftForNextCycle ==
    /\ \A s \in proc.failed :
          /\ schedules[s].last_sent = proc.snap[s].last_sent
          /\ schedules[s].next_send = proc.snap[s].next_send
          /\ IsDue(s, now)
    /\ proc.prev_failed \subseteq proc.selected
    /\ proc.pc = "loop" =>
          proc.prev_failed \ proc.skipped
              \subseteq Range(proc.pending) \cup proc.sent \cup proc.failed

\* C10 witness: with Firebase initialised, the call after one in which a
\* send failed has that schedule in its pending list again.
C10_Witness ==
    /\ firebase_app = "app"
    /\ proc.pc = "loop"
    /\ \E s \in proc.prev_failed : s \in Range(proc.pending)

\* C11: no step replaces a schedule's next_send with an earlier value (or
\* with none).
C11_NextSendNonDecreasing ==
    [][\A s \in ScheduleIds :
          \A old \in schedules[s].next_send :
              \E new \in schedules'[s].next_send : new >= old
      ]_vars

\* The four conditions of the selection, on the table as the call found it
\* and at the time of its query.
WasDue(s) ==
    /\ proc.snap[s].is_active
    /\ \E n \in proc.snap[s].next_send : n <= proc.at
    /\ users[proc.snap[s].user_id].notification_enabled
    /\ users[proc.snap[s].user_id].is_active

\* C12: a schedule a call sends for (or has in its pending list) satisfied
\* the four conditions when the call selected; a schedule that failed one of
\* them is neither sent nor changed by the call.
C12_OnlyDueProcessed ==
    proc.snap # <<>> =>
        \A s \in ScheduleIds :
            /\ s \in proc.sent \cup proc.failed \cup Range(proc.pending) => WasDue(s)
            /\ ~WasDue(s) => schedules[s] = proc.snap[s]

\* C12 witness: a call has sent for schedule 2 and has left alone schedule 1,
\* active with next_send reached, whose user has notifications disabled.
C12_Witness ==
    /\ proc.pc = "idle"
    /\ 2 \in proc.sent
    /\ schedules[1].is_active
    /\ schedules[1].next_send = At(0)
    /\ users[1].is_active
    /\ ~users[1].notification_enabled
    /\ 1 \notin proc.selected
    /\ schedules[1] = proc.snap[1]

\* The schedules for which a call of send_notification returned True.
SendsSucceeded ==
    {proc.forwarded[k].schedule :
        k \in {i \in 1..Len(proc.forwarded) : proc.forwarded[i].success}}

\* C21: a failed send changes no schedule and the call goes on to the next
\* pair; a call that reaches the end of its loop has made a send for every
\* pair of its pending list; every schedule whose send succeeded and was
\* committed carries the time of the send and, for a daily, weekly or
\* monthly one, the new next_send; every schedule whose send failed is as
\* the call found it.
C21_FailureIsolated ==
    /\ [][\A s \in ScheduleIds :
            (proc.pc = "loop" /\ s \notin proc.failed /\ s \in proc'.failed) =>
                /\ proc'.pc = "loop"
                /\ proc'.pending = Tail(proc.pending)
                /\ schedules' = schedules
         ]_vars
    /\ [][ProcessPendingEnd =>
            proc.sent \cup proc.failed = proc.selected \ proc.skipped
         ]_vars
    /\ [](\A s \in proc.failed : schedules[s] = proc.snap[s])
    /\ [](\A s \in proc.sent :
            /\ \E t \in proc.at..now : schedules[s].last_sent = At(t)
            /\ Period(schedules[s].frequency) # Null =>
                  schedules[s].next_send =
                      {schedules[s].scheduled_time + d :
                          d \in Period(schedules[s].frequency)})

\* C21 witness: a call has ended in which the send for the first pair
\* failed and the send for the second pair succeeded: the first schedule is
\* as it was, the second one has its last_sent.
C21_Witness ==
    /\ proc.pc = "idle"
    /\ Len(proc.forwarded) = 2
    /\ ~proc.forwarded[1].success
    /\ proc.forwarded[2].success
    /\ schedules[proc.forwarded[1].schedule] = proc.snap[proc.forwarded[1].schedule]
    /\ proc.snap[proc.forwarded[2].schedule].last_sent = Null
    /\ schedules[proc.forwarded[2].schedule].last_sent # Null

\* C22: every payload forwarded to send_notification carries the
\* title_template and the message_template of the schedule it is sent for.
C22_PayloadFromTemplates ==
    \A k \in 1..Len(proc.forwarded) :
        LET f == proc.forwarded[k]
        IN /\ f.payload.title = proc.snap[f.schedule].title_template
           /\ f.payload.message = proc.snap[f.schedule].message_template

\* C27: when a call has ended, the updates of all the schedules whose send
\* succeeded are persisted, or none of them is.
C27_SingleTransaction ==
    proc.pc = "idle" =>
        \/ SendsSucceeded \subseteq proc.sent
        \/ proc.sent = {}

(***************************************************************************)
(* Properties of the background loops (checked under SpecLoop)             *)
(***************************************************************************)
\* C13: the only transitions of a loop task are: test -> call (flag set) or
\* done (flag unset); call -> body, or raised; body -> returned, or raised;
\* returned -> sleep of 3600 s (quiz) or 900 s (notify), or raised; raised ->
\* sleep of 300 s; sleep -> test.
C13_LoopStateMachine ==
    [][\A j \in Jobs :
        LET a == jobs[j]
            b == jobs'[j]
        IN (a.pc # b.pc) =>
            \/ a.pc = "none" /\ b.pc = "test"
            \/ a.pc = "test" /\ is_running /\ b.pc = "call"
            \/ a.pc = "test" /\ ~is_running /\ b.pc = "done"
            \/ a.pc = "call" /\ b.pc \in {"body", "raised"}
            \/ a.pc = "body" /\ b.pc \in {"returned", "raised"}
            \/ a.pc = "returned" /\ b.pc = "raised"
            \/ a.pc = "returned" /\ b.pc = "sleep"
                  /\ b.sleep = IF j = "quiz" THEN 3600 ELSE 900
            \/ a.pc = "raised" /\ b.pc = "sleep" /\ b.sleep = 300
            \/ a.pc = "sleep" /\ b.pc = "test"
      ]_vars

\* C13 witness: the quiz loop is in its 5-minute sleep after an exception
\* while the notification loop is in its 15-minute sleep.
C13_Witness ==
    /\ is_running
    /\ jobs["quiz"].pc = "sleep" /\ jobs["quiz"].sleep = 300
    /\ jobs["notify"].pc = "sleep" /\ jobs["notify"].sleep = 900

\* C14: a loop whose job body met a persistence fault in this iteration
\* sleeps 300 s, not the full period.
C14_FaultMeansBackoff ==
    \A j \in Jobs :
        (jobs[j].pc = "sleep" /\ jobs[j].body_fault) => jobs[j].sleep = 300

\* C15: a task passes from the test into a new iteration only with the flag
\* set; stop() changes no task and no running call; a task leaves its loop
\* only at the test; and a task that was in an iteration when stop() was
\* called finishes it and then exits.
C15_StopAtIterationBoundary ==
    /\ [][\A j \in Jobs :
            /\ (jobs[j].pc = "test" /\ jobs'[j].pc = "call") => is_running
            /\ (jobs'[j].pc = "done" /\ jobs[j].pc # "done") => jobs[j].pc = "test"
            /\ (is_running /\ ~is_running') =>
                   /\ jobs'[j].pc = jobs[j].pc
                   /\ gen' = gen /\ proc' = proc
                   /\ quiz_schedules' = quiz_schedules /\ schedules' = schedules
         ]_vars
    /\ \A j \in Jobs : jobs[j].running_at_stop ~> (jobs[j].pc = "done")

\* C15 witness: stop() was called while the quiz loop was in an iteration;
\* the iteration committed its two rows and the loop has exited.
C15_Witness ==
    /\ ~is_running
    /\ jobs["quiz"].running_at_stop
    /\ jobs["quiz"].pc = "done"
    /\ gen_runs[2].ok_day = 0
    /\ gen_runs[2].created = 2

\* C16: unless stop() is called, each loop starts a new iteration again and
\* again.
C16_LoopsNeverDie ==
    \A j \in Jobs : (<>[](~is_running)) \/ ([]<>(jobs[j].pc = "call"))

\* C16 witness: both loops are in a new iteration after an iteration in
\* which an exception reached the loop (quiz) and one whose body met a
\* fault (notify).
C16_Witness ==
    /\ is_running
    /\ jobs["quiz"].pc = "call"
    /\ jobs["notify"].pc = "call"
    /\ gen_runs[2].ok_day = -1
    /\ proc.failed # {}

\* C34: once stop() has been called, and start() is not called again, every
\* loop task terminates: whatever it was doing, body, period sleep or
\* back-off sleep, it reaches its test and exits there.
C34_LoopsTerminateAfterStop ==
    \A t \in TaskIds :
        (~is_running /\ jobs[t].pc \notin {"none", "direct"})
            ~> (jobs[t].pc = "done")

\* C34 witness: each loop had run its body; stop() was called while both
\* were asleep or at their test, and both have exited.
C34_Witness ==
    /\ ~is_running
    /\ \A j \in Jobs : jobs[j].pc = "done" /\ ~jobs[j].running_at_stop
    /\ gen_runs[2].ok_day = 0
    /\ proc.at = 0 /\ proc.snap # <<>>

\* C38: a call of start() made while the scheduler is running returns at
\* once: it creates no task, changes no task and leaves the flag set, so
\* that start() followed by start() leaves what one start() leaves; and
\* while the flag is set no step creates a task.
C38_StartWhileRunningIsNoOp ==
    [][is_running =>
          /\ last_start' # last_start =>
                /\ last_start' = "returned"
                /\ jobs' = jobs
                /\ is_running'
          /\ \A t \in TaskIds : jobs[t].pc = "none" => jobs'[t].pc = "none"
      ]_vars

\* C38 witness: start() was called twice in a row; the scheduler is running
\* with the two tasks of the first call and no others.
C38_Witness ==
    /\ is_running
    /\ last_start = "returned"
    /\ \A t \in TasksOf(1) : jobs[t].pc \notin {"none", "done"}
    /\ \A t \in TaskIds \ TasksOf(1) : jobs[t].pc = "none"

\* The tasks of job j that were created and have not exited.
AliveTasks(j) ==
    {t \in TaskIds : JobOf(t) = j /\ jobs[t].pc \notin {"none", "done", "direct"}}

\* C30: at most one task per job is alive.
C30_AtMostOneTaskPerJob ==
    \A j \in Jobs : Cardinality(AliveTasks(j)) <= 1

(***************************************************************************)
(* The two jobs side by side (checked under SpecPair)                      *)
(***************************************************************************)
\* The tables a generator call can leave when it finds the table Q: Q itself
\* (it ended in its handler), or Q and one row for every active user with
\* an active topic and no row for today.
GenOutcomes(Q) ==
    LET needs == {u \in Users :
                    /\ users[u].is_active
                    /\ ExistingToday(Q, u, now) = 0
                    /\ ActiveUserTopics(u) # {}}
        rowsOf(u) == {DailyQuizSchedule(u, now, SelectedTopics(r), 1) :
                        r \in OrderByPriorityDesc(ActiveUserTopics(u))}
        choices == {f \in [needs -> UNION {rowsOf(u) : u \in needs}] :
                        \A u \in needs : f[u] \in rowsOf(u)}
    IN {Q} \cup {Q (+) SetToBag({f[u] : u \in needs}) : f \in choices}

\* The completed rows of u dated today or later in the table Q.
CompletedIn(Q, u, today) ==
    CountIn({r \in BagToSet(Q) :
        /\ r.user_id = u
        /\ r.scheduled_date >= today
        /\ r.is_completed},
            Q)

\* The schedule table after the sends `log` made on the table S.
RECURSIVE ApplySends(_, _)
ApplySends(S, log) ==
    IF log = <<>> THEN S
    ELSE ApplySends([S EXCEPT ![Head(log).schedule] =
                         AfterSend(@, Head(log).success, now)],
                    Tail(log))

\* What a dispatcher call can leave when it finds the schedules S and the
\* quiz table Q: the schedule table and the sends it made.  Its query can
\* raise (nothing is sent); otherwise it handles the due pairs whose user has
\* no completed quiz, in some order, each send succeeding or failing, up to
\* the end or up to a commit that raises.
DispOutcomes(S, Q) ==
    LET due == {s \in ScheduleIds :
                  /\ S[s].is_active
                  /\ \E n \in S[s].next_send : n <= now
                  /\ users[S[s].user_id].notification_enabled
                  /\ users[S[s].user_id].is_active}
        kept == {s \in due : CompletedIn(Q, S[s].user_id, now) = 0}
        logs(order) ==
            {[k \in 1..n |-> Forwarded(order[k],
                                       send_quiz_reminder(S[order[k]].user_id),
                                       flags[k])] :
                n \in 0..Len(order), flags \in [1..Len(order) -> BOOLEAN]}
        full(order) == {l \in logs(order) : Len(l) = Len(order)}
        cut(order) == {l \in logs(order) : Len(l) < Len(order)}
    IN {<<S, <<>>>>}
        \cup UNION {{<<ApplySends(S, l), l>> : l \in full(order)} :
                        order \in AnyOrder(kept)}
        \cup UNION {{<<ApplySends(S, l),
                       Append(l, Forwarded(order[Len(l) + 1],
                                  send_quiz_reminder(S[order[Len(l) + 1]].user_id),
                                  TRUE))>> : l \in cut(order)} :
                        order \in AnyOrder(kept)}

BothIterationsOver ==
    \A j \in Jobs : jobs[j].pc = "sleep"

\* C28: when one iteration of each loop has ended, however their steps were
\* interleaved, the quiz rows, the notification schedules and the sends made
\* are those of the generator followed by the dispatcher or of the
\* dispatcher followed by the generator; no step of the generator changes a
\* notification schedule and no step of the dispatcher changes a quiz row.
C28_SerialisableWithoutLocks ==
    /\ [](BothIterationsOver =>
            /\ quiz_schedules \in GenOutcomes(PairQuizSchedules)
            /\ \/ <<schedules, proc.forwarded>>
                     \in DispOutcomes(PairSchedules, PairQuizSchedules)
               \/ <<schedules, proc.forwarded>>
                     \in DispOutcomes(PairSchedules, quiz_schedules))
    /\ [][ /\ gen' # gen => schedules' = schedules
           /\ proc' # proc => quiz_schedules' = quiz_schedules
         ]_vars

\* C28 witness: both calls are under way at once: the generator has added
\* the row of one user and not yet committed, the dispatcher has sent for
\* one schedule and has the other one pending.
C28_Witness ==
    /\ gen.pc = "loop" /\ Len(gen.added) = 1 /\ gen.todo # <<>>
    /\ proc.pc = "loop" /\ Len(proc.forwarded) = 1 /\ proc.pending # <<>>
    /\ proc.sent # {}

(***************************************************************************)
(* The container loop (checked under SpecParse)                            *)
(***************************************************************************)
\* The records of the page the code can read: the question-text element is
\* there and nothing raises while the container is parsed.
WellFormedRecords == SelectSeq(parse.containers, LAMBDA c : c.element /\ ~c.raises)

\* C23: within one page of a structured adapter, a container without the
\* question-text element, or one on which parsing raises, is skipped and
\* does not end the page: the questions returned are those of the
\* well-formed containers, all of them, before and after the bad one, in
\* page order.
C23_BadRecordSkipped ==
    parse.done =>
        /\ Len(parse.questions) = Len(WellFormedRecords)
        /\ \A k \in 1..Len(WellFormedRecords) :
              /\ parse.questions[k].question_text = Strip(WellFormedRecords[k].text)
              /\ parse.questions[k].source_name = SourceName(parse.adapter)

\* A page of three: a good record, one that raises, a good record; both
\* good ones are back.
C23_Witness ==
    /\ parse.done
    /\ parse.containers = <<WellFormed(TextQ1), Malformed, WellFormed(TextQ2Padded)>>
    /\ Len(parse.questions) = 2
    /\ parse.questions[2].question_text = TextQ2

\* C25: every ScrapedQuestion of an adapter has a non-empty question_text,
\* also when the question-text element is in the page but has no text.
C25_QuestionTextNonEmpty ==
    parse.done =>
        \A k \in 1..Len(parse.questions) : parse.questions[k].question_text # <<>>

(***************************************************************************)
(* scrape_all_sources: which adapters run, and the delay before a fetch    *)
(* (checked under SpecScrape)                                              *)
(***************************************************************************)
\* C24: the Reddit adapter runs only when a company is given.  With no
\* company, or an empty one, the three structured adapters are the tasks,
\* all three, the Reddit adapter is not among them, and no record of the
\* result has source_name Reddit; with a company the Reddit adapter runs.
C24_RedditOnlyWithCompany ==
    scrape_pc # "idle" =>
        /\ company \in {None, ""} =>
              /\ task[Reddit].pc = "absent"
              /\ \A i \in Structured : task[i].pc # "absent"
              /\ \A k \in 1..Len(ret.value) : ret.value[k].source_name # "Reddit"
        /\ company \notin {None, ""} => task[Reddit].pc # "absent"

\* A call with an empty company is over and has returned records.
C24_Witness ==
    /\ scrape_pc = "done"
    /\ company = ""
    /\ ret.kind = "return"
    /\ ret.value # <<>>

\* C29: every fetch comes after the politeness delay of the same task.  A
\* task reaches the call of session.get only from its sleep, for the same
\* subreddit, and holds a connection only after that call; a task starts
\* in the sleep, and the Reddit adapter is in the sleep again whenever it
\* moves to its next subreddit, so each of its three fetches has a delay of
\* its own.
C29_DelayBeforeEveryFetch ==
    [][\A i \in Adapters :
         /\ (task[i].pc # "wait" /\ task'[i].pc = "wait") =>
               /\ task[i].pc = "sleep"
               /\ task'[i].sub = task[i].sub
         /\ (task[i].pc # "fetch" /\ task'[i].pc = "fetch") =>
               /\ task[i].pc = "wait"
               /\ task'[i].sub = task[i].sub
         /\ (task'[i].sub # task[i].sub) => task'[i].pc = "sleep"
         /\ (task[i].pc = "absent" /\ task'[i].pc # "absent") =>
               task'[i].pc = "sleep"]_vars

\* The Reddit adapter is in its third fetch.
C29_Witness ==
    /\ task[Reddit].pc = "fetch"
    /\ task[Reddit].sub = Len(Subreddits)

(***************************************************************************)
(* Two WebScraper instances (checked under SpecPeers)                      *)
(***************************************************************************)
\* C26: the bound on in-flight fetches holds over the whole process: the
\* fetches in flight of two scrape_all_sources calls that run at the same
\* time, each on a WebScraper of its own, are together never more than
\* max_concurrent_requests.
C26_ProcessWideBound ==
    InFlight + peer.in_flight <= max_concurrent_requests

(***************************************************************************)
(* The dispatcher over time (checked under SpecNotify)                     *)
(***************************************************************************)
\* C31: after a successful send for a daily, weekly or monthly schedule the
\* recomputed next_send is later than the time of the send (last_sent), so
\* that a call made less than one period later does not select the
\* schedule again.
C31_NextSendAfterSendTime ==
    \A s \in ScheduleIds :
        schedules[s].frequency \in {"daily", "weekly", "monthly"} =>
            \A sent_at \in schedules[s].last_sent :
                \A n \in schedules[s].next_send : n > sent_at

(***************************************************************************)
(* Schedules of setup_daily_notifications (checked under FairSpecSetup)    *)
(***************************************************************************)
\* The schedule with id s was created by setup_daily_notifications.
FromSetup(s) ==
    /\ s \in DOMAIN schedules
    /\ schedules[s].frequency = "daily"
    /\ schedules[s].is_active

\* C32: a schedule setup_daily_notifications created, for an active user
\* with notifications enabled who has not completed the day's quiz, is
\* eventually selected and sent once its scheduled time has passed, while
\* the dispatcher keeps being called.
C32_SetupScheduleEventuallySent ==
    \A s \in ScheduleIds :
        (FromSetup(s) /\ now > schedules[s].scheduled_time)
            ~> (FromSetup(s) /\ schedules[s].last_sent # Null)

(***************************************************************************)
(* The generator over time (checked under FairSpecBatch)                   *)
(***************************************************************************)
\* u is active and has an active topic.
Eligible(u) ==
    /\ users[u].is_active
    /\ ActiveUserTopics(u) # {}

\* C33: once persistence faults have ceased and while the generator keeps
\* being called, every active user with an active topic and no row for the
\* current day eventually has a row for the current day, whatever the rows
\* of the other users.
C33_EveryEligibleUserServed ==
    \A u \in Users :
        (Eligible(u) /\ ExistingToday(quiz_schedules, u, now) = 0)
            ~> (ExistingToday(quiz_schedules, u, now) > 0)

(***************************************************************************)
(* The two creation operations compared (checked under SpecQuiz)           *)
(***************************************************************************)
\* What the per-user step of the running generator call decides for the
\* user it is at (lines 82-111), and what create_user_quiz_schedule would
\* decide for the same user on the same committed rows (lines 136-166):
\* TRUE is create, FALSE is skip.  A lookup that raises creates nothing.
GeneratorCreates(u) ==
    /\ ExistingToday(View(gen.added), u, gen.today) = 0
    /\ ActiveUserTopics(u) # {}
CreateUserCreates(u) ==
    /\ ExistingFromToday(quiz_schedules, u, now) = 0
    /\ ActiveUserTopics(u) # {}

\* C35: in every state the two creation operations lead to, the per-user
\* step of the generator and create_user_quiz_schedule make the same
\* decision for a user.
C35_SameDecision ==
    (gen.pc = "loop" /\ gen.todo # <<>>) =>
        (GeneratorCreates(Head(gen.todo)) <=> CreateUserCreates(Head(gen.todo)))

(***************************************************************************)
(* The Reddit adapter (checked under SpecScrape)                           *)
(***************************************************************************)
\* The adapter has just handled the response for a subreddit.
RedditHandled ==
    /\ task[Reddit].pc \in {"sleep", "wait", "fetch"}
    /\ \/ task'[Reddit].sub # task[Reddit].sub
       \/ task'[Reddit].pc = "done"

\* C36: a fetch failure or a JSON decode error for one subreddit skips that
\* subreddit only: the questions of the earlier subreddits are kept and the
\* adapter goes on with the next subreddit, or returns them after the last
\* one; the subreddits are taken in their fixed order, one after the other;
\* and a post adds at most 5 questions.
C36_SubredditFailureSkipped ==
    /\ Subreddits = <<"cscareerquestions", "interviews", "programming">>
    /\ [][RedditHandled =>
            LET before == task[Reddit]
                after == task'[Reddit]
            IN /\ after.outcome \in {"fail", "badjson"} =>
                     /\ after.questions = before.questions
                     /\ IF before.sub < Len(Subreddits)
                        THEN after.pc = "sleep" /\ after.sub = before.sub + 1
                        ELSE /\ after.pc = "done"
                             /\ after.result = [kind |-> "list",
                                                value |-> before.questions]
               /\ after.sub \in {before.sub, before.sub + 1}
               /\ Len(after.questions) >= Len(before.questions)
               /\ SubSeq(after.questions, 1, Len(before.questions)) = before.questions
               /\ Len(after.questions) <= Len(before.questions) + MaxQuestions
         ]_vars

\* C36 witness: the fetch for the second subreddit failed; the adapter is in
\* its fetch for the third one and holds the 5 questions of the first.
C36_Witness ==
    /\ task[Reddit].pc = "fetch"
    /\ task[Reddit].sub = Len(Subreddits)
    /\ task[Reddit].outcome = "fail"
    /\ Len(task[Reddit].questions) = MaxQuestions

(***************************************************************************)
(* Stored notifications (checked under SpecNotify)                         *)
(***************************************************************************)
\* C37: a call of send_notification with a session that returned True left
\* its Notification row with is_sent true, and a stored row with is_sent
\* false belongs to a call that returned False; so for the calls of the
\* dispatcher, made without a device token.
C37_SuccessMeansMarkedSent ==
    \A k \in 1..Len(proc.forwarded) :
        \A j \in 1..Len(proc.forwarded[k].stored) :
            proc.forwarded[k].success <=> proc.forwarded[k].stored[j].is_sent

====
